---- MODULE Spec2Model ----
(***************************************************************************)
(* Model of the transcription service of sales-ai:                        *)
(*   src/transcription.py  TranscriptionService.transcribe_file_with_retries,*)
(*                         TranscriptionService.transcribe_large_file       *)
(*   src/media.py          chunk_audio, merge_transcripts                   *)
(*                                                                         *)
(* Conventions                                                             *)
(*   - file sizes are whole megabytes (0 = empty file); every threshold    *)
(*     of the code is a whole number of megabytes;                         *)
(*   - a text (transcript, error message, returned string) is a sequence   *)
(*     of tokens; the token " " is a whitespace character, every other     *)
(*     token is a word or a fixed phrase of the source's f-strings;        *)
(*   - the service is modelled with an ASR client configured               *)
(*     (demo_mode = FALSE).                                                *)
(***************************************************************************)
EXTENDS Integers, Sequences, FiniteSets, TLC

(***************************************************************************)
(* Bounds of the model                                                     *)
(***************************************************************************)
\* largest max_retries argument passed by the direct caller
MaxRetriesBound == 6

(***************************************************************************)
(* Program constants                                                       *)
(***************************************************************************)
MAX_WHISPER_FILE_SIZE_MB == 25
DEFAULT_MAX_RETRIES == 3
RATE_LIMIT_STEP == 5
RATE_LIMIT_CAP == 30
TRANSIENT_WAIT == 2

demo_mode == FALSE

Min(a, b) == IF a <= b THEN a ELSE b
Max(a, b) == IF a >= b THEN a ELSE b

(***************************************************************************)
(* Texts                                                                   *)
(***************************************************************************)
\* str.lower() on one token
lower(w) ==
    CASE w = "Rate" -> "rate"
      [] w = "RATE" -> "rate"
      [] w = "Limit" -> "limit"
      [] w = "Content" -> "content"
      [] w = "Size" -> "size"
      [] OTHER -> w

Lower(text) == [i \in 1..Len(text) |-> lower(text[i])]

\* Python's `needle in text`
Contains(needle, text) ==
    \E i \in 0..(Len(text) - Len(needle)) :
        SubSeq(text, i + 1, i + Len(needle)) = needle

Whitespace == {" ", "\n"}

RECURSIVE Join(_, _)
\* sep.join(texts)
Join(texts, sep) ==
    IF texts = <<>> THEN <<>>
    ELSE IF Len(texts) = 1 THEN texts[1]
    ELSE texts[1] \o sep \o Join(Tail(texts), sep)

RECURSIVE CollapsePairs(_)
\* mutant: whitespace is replaced two characters at a time
CollapsePairs(text) ==
    IF text = <<>> THEN <<>>
    ELSE IF text[1] \in Whitespace
    THEN IF Len(text) > 1 /\ text[2] \in Whitespace
         THEN <<" ">> \o CollapsePairs(Tail(Tail(text)))
         ELSE <<" ">> \o CollapsePairs(Tail(text))
    ELSE <<text[1]>> \o CollapsePairs(Tail(text))

RECURSIVE CollapseWhitespace(_)
\* re.sub(r'\s+', ' ', text)
CollapseWhitespace(text) ==
    IF text = <<>> THEN <<>>
    ELSE IF text[1] \in Whitespace
    THEN IF Len(text) > 1 /\ text[2] \in Whitespace
         THEN CollapseWhitespace(Tail(text))
         ELSE <<" ">> \o CollapseWhitespace(Tail(text))
    ELSE <<text[1]>> \o CollapseWhitespace(Tail(text))

RECURSIVE LStrip(_)
LStrip(text) ==
    IF text # <<>> /\ text[1] \in Whitespace THEN LStrip(Tail(text)) ELSE text

RECURSIVE RStrip(_)
RStrip(text) ==
    IF text # <<>> /\ text[Len(text)] \in Whitespace
    THEN RStrip(SubSeq(text, 1, Len(text) - 1))
    ELSE text

\* str.strip()
Strip(text) == RStrip(LStrip(text))

\* str(oe) of the OpenAIError raised by the ASR client (a timed-out request
\* raises APITimeoutError, an OpenAIError)
OpenAIErrors ==
    { <<"Rate", "limit", "reached">>,
      <<"Error", "code:", "429">>,
      <<"Maximum", "content", "size", "limit", "exceeded">>,
      <<"429", "Content", "Size", "Limit">>,
      <<"Request", "timed", "out">> }

\* the ASR failures tried on the units of a request to transcribe_large_file
RequestErrors ==
    { <<"Rate", "limit", "reached">>,
      <<"Maximum", "content", "size", "limit", "exceeded">>,
      <<"Request", "timed", "out">> }

\* str(e) of an exception that is not an OpenAIError
OtherExceptions == { <<"Permission", "denied">>, <<"rate", "limit", "socket">> }

IsTooLarge(error_message) ==
    Contains(<<"content", "size", "limit">>, Lower(error_message))

IsRateLimit(error_message) ==
    \/ Contains(<<"rate", "limit">>, Lower(error_message))
    \/ Contains(<<"429">>, error_message)

IsTransient(error_message) ==
    ~IsTooLarge(error_message) /\ ~IsRateLimit(error_message)

(***************************************************************************)
(* Files: name, size in MB, duration in seconds, whether the file exists,  *)
(* and the word the ASR service hears in it (kept by every re-encoding of  *)
(* the same audio).                                                        *)
(***************************************************************************)
File(name, size, dur, exists, word) ==
    [name |-> name, size |-> size, dur |-> dur, exists |-> exists, word |-> word]

NoFile == File("", 0, 0, FALSE, "")

\* transcript_response.text for a file: nothing, the word, or the word
\* twice with assorted whitespace
AsrTexts(f) ==
    { <<>>, <<f.word>>, <<" ", f.word, " ", " ", f.word, " ">> }

(***************************************************************************)
(* merge_transcripts (src/media.py)                                        *)
(***************************************************************************)
\* mutant: the ends of the text are not stripped
merge_transcripts_no_strip(transcript_chunks) ==
    IF transcript_chunks = <<>>
    THEN <<>>
    ELSE CollapseWhitespace(Join(transcript_chunks, <<" ">>))

merge_transcripts(transcript_chunks) ==
    IF transcript_chunks = <<>>
    THEN <<>>
    ELSE Strip(CollapseWhitespace(Join(transcript_chunks, <<" ">>)))

(***************************************************************************)
(* The end of transcribe_large_file: lines 358-373                         *)
(***************************************************************************)
NoChunksText ==
    <<"Transcription failed: No chunks could be transcribed. The file may be corrupted or unsupported.">>

NoteOpen == "[Note: Some parts of the audio (chunks"
NoteClose == ") could not be transcribed.]"

\* ', '.join(map(str, failed_chunks))
IndexList(failed_chunks) ==
    Join([k \in 1..Len(failed_chunks) |-> <<ToString(failed_chunks[k])>>], <<", ">>)

FailureNote(failed_chunks) ==
    <<"\n", "\n", NoteOpen>> \o IndexList(failed_chunks) \o <<NoteClose>>

\* mutant: no separate return when nothing was transcribed
combine_transcripts_no_guard(transcripts, failed_chunks) ==
    IF failed_chunks # <<>>
    THEN [text |-> merge_transcripts(transcripts) \o FailureNote(failed_chunks),
          line |-> 373]
    ELSE [text |-> merge_transcripts(transcripts), line |-> 373]

\* the returned text and the line of the return statement
combine_transcripts(transcripts, failed_chunks) ==
    IF transcripts = <<>>
    THEN [text |-> NoChunksText, line |-> 360]
    ELSE IF failed_chunks # <<>>
    THEN [text |-> merge_transcripts(transcripts) \o FailureNote(failed_chunks),
          line |-> 373]
    ELSE [text |-> merge_transcripts(transcripts), line |-> 373]

(***************************************************************************)
(* The chunk plan of chunk_audio (src/media.py lines 571-648).  Times are  *)
(* fractions n/d of a second; the arithmetic is exact.                     *)
(***************************************************************************)
OVERLAP_SECONDS == 2

Frac(n, d) == [n |-> n, d |-> d]

\* lines 572-576: min(max_chunk_duration, max_size_mb * time_per_mb * 0.9)
target_chunk_duration(duration, file_size_mb, max_size_mb, max_chunk_duration) ==
    LET n == 9 * max_size_mb * duration
        d == 10 * Max(1, file_size_mb)
    IN  IF max_chunk_duration * d <= n
        THEN Frac(max_chunk_duration, 1)
        ELSE Frac(n, d)

\* line 621: math.ceil(duration / target_chunk_duration)
chunk_count(duration, target) ==
    (duration * target.d + target.n - 1) \div target.n

\* line 631
start_time(i, target) ==
    Frac(Max(0, i * target.n - (IF i = 0 THEN 0 ELSE OVERLAP_SECONDS * target.d)),
         target.d)

\* mutant: the end of a chunk is not clamped to the duration
end_time_unclamped(i, count, target, duration) ==
    Frac((i + 1) * target.n
           + (IF i = count - 1 THEN 0 ELSE OVERLAP_SECONDS * target.d),
         target.d)

\* line 632
end_time(i, count, target, duration) ==
    Frac(Min(duration * target.d,
             (i + 1) * target.n
               + (IF i = count - 1 THEN 0 ELSE OVERLAP_SECONDS * target.d)),
         target.d)

\* lines 642-648: kbit/s of the first encoding of a chunk
chunk_bitrate(start, end) ==
    LET span == end.n - start.n IN
    IF span > 450 * start.d THEN 12
    ELSE IF span > 300 * start.d THEN 16
    ELSE 24

\* line 587-590: kbit/s of the lower-bitrate version of the whole input
lower_bitrate(max_size_mb, max_chunk_duration) ==
    Max(8, Min((max_size_mb * 1024 * 1024 * 8 * 8)
                   \div (max_chunk_duration * 1000 * 10), 128))

RECURSIVE ladder(_, _, _)
\* lines 680-710: the size of chunk_file after the loop over 12k, 8k, 6k;
\* outcomes[j] is the size the j-th re-encode produces, -1 when ffmpeg
\* returns non-zero (the file is then left as it was)
ladder(size, outcomes, max_size_mb) ==
    IF outcomes = <<>> THEN size
    ELSE IF outcomes[1] = -1 THEN ladder(size, Tail(outcomes), max_size_mb)
    ELSE IF outcomes[1] <= max_size_mb THEN outcomes[1]
    ELSE ladder(outcomes[1], Tail(outcomes), max_size_mb)

VARIABLES
    pc,           \* position of the caller
    tfr_pc,       \* position inside transcribe_file_with_retries
    unit,         \* file_path argument of transcribe_file_with_retries
    max_retries,  \* max_retries argument
    retries,      \* local variable retries
    asr_calls,    \* client.audio.transcriptions.create calls of this unit
    errors,       \* error_message of each failed OpenAIError attempt, in order
    slept,        \* slept[k]: seconds of time.sleep after failed attempt k
    tfr_result,   \* the returned (text, success) pair
    ret_line,     \* source line of the return statement taken
    exhaust_log,  \* calls made by runs that exhausted their retries
    ca_pc,        \* position inside chunk_audio
    ca_args,      \* arguments of chunk_audio (input_file may be rebound, line 610)
    ca_duration,  \* local variable duration of chunk_audio
    ca_target,    \* local variable target_chunk_duration
    ca_count,     \* local variable chunk_count
    ca_i,         \* loop variable i of chunk_audio
    chunk_list,   \* local variable chunk_list
    ca_result,    \* the list chunk_audio returned
    plan_count,   \* number of chunks of the plan behind ca_result / chunks
    ca_encoded,   \* chunk_audio has run an ffmpeg encode since it was called
    ca_last,      \* the latest iteration of the loop: bitrates tried, sizes
    caller,       \* who called transcribe_large_file
    stored,       \* the texts handed to supabase.store_transcript
    extract_failed, \* an extract_high_quality_audio call of the request raised
    duration,     \* local variable duration of transcribe_large_file
    conditioning, \* the latest optimize_audio_for_transcription call
    file_path,    \* argument of transcribe_large_file
    audio_path,   \* local variables of transcribe_large_file ...
    optimized_audio,
    subprocess_bound, \* the function-local name subprocess is bound (line 272)
    chunks,
    loop_i,       \* 1-based position in chunks of the chunk being processed
    transcripts,
    failed_chunks,
    outcomes,     \* per position in chunks: what happened to that chunk
    tlf_result,   \* the string transcribe_large_file returned
    tlf_ret       \* source line of the return statement taken

tfr_vars == <<tfr_pc, unit, retries, asr_calls, errors, slept, tfr_result, ret_line>>

ca_vars == <<ca_pc, ca_args, ca_duration, ca_target, ca_count, ca_i, chunk_list,
             ca_result, plan_count, ca_encoded, ca_last>>

pas_vars == <<caller, stored>>

\* the files of a directory and the conditioning stages run on them
VARIABLES
    fs,               \* per path: -1 no file, 0 an empty file, 1 a file with data
    opt_pc,           \* position inside optimize_audio_for_transcription
    opt_input,        \* its argument input_file
    hq_audio,         \* its local variables ...
    normalized_audio,
    final_audio,
    opt_result,       \* what it handed back
    stage,            \* the latest call of one of its three stages
    probe             \* the latest call of get_media_duration

cond_vars == <<fs, opt_pc, opt_input, hq_audio, normalized_audio, final_audio,
               opt_result, stage, probe>>

\* two concurrent requests to transcribe_large_file and the files they touch
VARIABLES
    disk,         \* the paths that name a file
    dirs_made,    \* number of temporary directories created so far
    rq_pc,        \* per request: position inside transcribe_large_file
    rq_dir,       \* per request: local variable temp_dir
    rq_input,     \* per request: argument file_path
    rq_audio,     \* per request: local variable audio_path
    rq_optimized, \* per request: local variable optimized_audio
    rq_chunks,    \* per request: local variable chunks
    rq_i,         \* per request: 1-based position in chunks of the loop
    rq_bound,     \* per request: the local name subprocess is bound (line 272)
    rq_read,      \* per request: the top directories it has read a path of
    rq_written    \* per request: the top directories it has written,
                  \* overwritten or removed a path of

req_vars == <<disk, dirs_made, rq_pc, rq_dir, rq_input, rq_audio, rq_optimized,
              rq_chunks, rq_i, rq_bound, rq_read, rq_written>>

\* a direct caller of merge_transcripts
VARIABLES
    merge_pc,          \* position of the caller
    transcript_chunks, \* the argument of merge_transcripts
    merged,            \* what the call returned
    merged_again,      \* what a second call on the same list returned
    merged_once        \* what a call on the one-element list [merged] returned

merge_vars == <<merge_pc, transcript_chunks, merged, merged_again, merged_once>>

tlf_vars == <<file_path, audio_path, optimized_audio, subprocess_bound,
              chunks, loop_i, transcripts, failed_chunks, outcomes, tlf_result,
              tlf_ret, extract_failed, duration, conditioning>>

NoResult == [text |-> <<>>, success |-> FALSE]

(***************************************************************************)
(* transcribe_file_with_retries                                            *)
(***************************************************************************)
\* caller side: the call itself
tfr_call(f) ==
    /\ tfr_pc = "idle"
    /\ tfr_pc' = "entry"
    /\ unit' = f
    /\ retries' = 0
    /\ asr_calls' = 0
    /\ errors' = <<>>
    /\ slept' = <<>>
    /\ tfr_result' = NoResult
    /\ ret_line' = 0

\* lines 87-98: demo short cut, os.path.getsize, the 25MB check
\* mutant: no file is refused for its size
exceeds_whisper_limit_never(file_size) == FALSE

\* line 96: file_size > MAX_WHISPER_FILE_SIZE_BYTES
exceeds_whisper_limit(file_size) == file_size > MAX_WHISPER_FILE_SIZE_MB

TooLargeText(size) ==
    <<"File too large for transcription:", ToString(size), "MB exceeds 25MB limit">>

DemoText == <<"This is a demo transcription.">>

tfr_entry ==
    /\ tfr_pc = "entry"
    /\ IF demo_mode
       THEN /\ tfr_pc' = "done"
            /\ tfr_result' = [text |-> DemoText, success |-> TRUE]
            /\ ret_line' = 90
       ELSE IF ~unit.exists
       THEN \* os.path.getsize raises outside every try block
            /\ tfr_pc' = "raised"
            /\ ret_line' = 92
            /\ UNCHANGED tfr_result
       ELSE IF exceeds_whisper_limit(unit.size)
       THEN /\ tfr_pc' = "done"
            /\ tfr_result' = [text |-> TooLargeText(unit.size), success |-> FALSE]
            /\ ret_line' = 98
       ELSE /\ tfr_pc' = "loop"
            /\ UNCHANGED <<tfr_result, ret_line>>
    /\ UNCHANGED <<unit, retries, asr_calls, errors, slept>>

\* line 102 and line 144: the loop test and the return after the loop
FailedAfterText(mr) ==
    <<"Transcription failed after", ToString(mr), "attempts">>

\* mutant: the loop is entered once more
loop_continues_once_more(r, mr) == r <= mr + 1

\* line 102: while retries <= max_retries
loop_continues(r, mr) == r <= mr

tfr_loop ==
    /\ tfr_pc = "loop"
    /\ IF loop_continues(retries, max_retries)
       THEN /\ tfr_pc' = "call"
            /\ UNCHANGED <<tfr_result, ret_line>>
       ELSE /\ tfr_pc' = "done"
            /\ tfr_result' = [text |-> FailedAfterText(max_retries), success |-> FALSE]
            /\ ret_line' = 144
    /\ UNCHANGED <<unit, retries, asr_calls, errors, slept>>

\* lines 107-116: the ASR call answers
tfr_success ==
    /\ tfr_pc = "call"
    /\ \E transcript_text \in AsrTexts(unit) :
          tfr_result' = [text |-> transcript_text, success |-> TRUE]
    /\ asr_calls' = asr_calls + 1
    /\ tfr_pc' = "done"
    /\ ret_line' = 116
    /\ UNCHANGED <<unit, retries, errors, slept>>

\* lines 118-137: what the handler of OpenAIError does, retries being the
\* value after `retries += 1`
ErrorAfterText(mr, error_message) ==
    <<"Transcription error after", ToString(mr), "attempts:">> \o error_message

SizeLimitText(error_message) ==
    <<"File too large for transcription:">> \o error_message

\* mutant: the wait is computed from the count before `retries += 1`
on_openai_error_late_count(error_message, r, mr) ==
    IF IsTooLarge(error_message)
    THEN [do |-> "return", line |-> 125, wait |-> 0,
          text |-> SizeLimitText(error_message)]
    ELSE IF IsRateLimit(error_message)
    THEN [do |-> "retry", line |-> 130,
          wait |-> Min((r - 1) * RATE_LIMIT_STEP, RATE_LIMIT_CAP), text |-> <<>>]
    ELSE IF r >= mr
    THEN [do |-> "return", line |-> 133, wait |-> 0,
          text |-> ErrorAfterText(mr, error_message)]
    ELSE [do |-> "retry", line |-> 137, wait |-> TRANSIENT_WAIT, text |-> <<>>]

\* mutant: the rate-limit test comes before the size-limit test
on_openai_error_rate_first(error_message, r, mr) ==
    IF IsRateLimit(error_message)
    THEN [do |-> "retry", line |-> 130,
          wait |-> Min(r * RATE_LIMIT_STEP, RATE_LIMIT_CAP), text |-> <<>>]
    ELSE IF IsTooLarge(error_message)
    THEN [do |-> "return", line |-> 125, wait |-> 0,
          text |-> SizeLimitText(error_message)]
    ELSE IF r >= mr
    THEN [do |-> "return", line |-> 133, wait |-> 0,
          text |-> ErrorAfterText(mr, error_message)]
    ELSE [do |-> "retry", line |-> 137, wait |-> TRANSIENT_WAIT, text |-> <<>>]

on_openai_error(error_message, r, mr) ==
    IF IsTooLarge(error_message)
    THEN [do |-> "return", line |-> 125, wait |-> 0,
          text |-> SizeLimitText(error_message)]
    ELSE IF IsRateLimit(error_message)
    THEN [do |-> "retry", line |-> 130, wait |-> Min(r * RATE_LIMIT_STEP, RATE_LIMIT_CAP),
          text |-> <<>>]
    ELSE IF r >= mr
    THEN [do |-> "return", line |-> 133, wait |-> 0,
          text |-> ErrorAfterText(mr, error_message)]
    ELSE [do |-> "retry", line |-> 137, wait |-> TRANSIENT_WAIT, text |-> <<>>]

tfr_openai_error ==
    /\ tfr_pc = "call"
    /\ \E error_message \in (IF pc = "direct" THEN OpenAIErrors ELSE RequestErrors) :
          LET h == on_openai_error(error_message, retries + 1, max_retries) IN
          /\ errors' = Append(errors, error_message)
          /\ slept' = Append(slept, h.wait)
          /\ IF h.do = "return"
             THEN /\ tfr_pc' = "done"
                  /\ tfr_result' = [text |-> h.text, success |-> FALSE]
                  /\ ret_line' = h.line
             ELSE /\ tfr_pc' = "loop"
                  /\ UNCHANGED <<tfr_result, ret_line>>
    /\ asr_calls' = asr_calls + 1
    /\ retries' = retries + 1
    /\ UNCHANGED unit

\* lines 139-141: any other exception ends the unit
UnexpectedText(e) == <<"Transcription error:">> \o e

\* mutant: the exception is handled like a transient API error
on_exception_retry(e) ==
    [do |-> "retry", line |-> 137, wait |-> TRANSIENT_WAIT, text |-> <<>>]

\* what the handler of Exception does
on_exception(e) ==
    [do |-> "return", line |-> 141, wait |-> 0, text |-> UnexpectedText(e)]

tfr_exception ==
    /\ tfr_pc = "call"
    /\ \E e \in (IF pc = "direct" THEN OtherExceptions ELSE {<<"Permission", "denied">>}) :
          LET h == on_exception(e) IN
          IF h.do = "return"
          THEN /\ tfr_pc' = "done"
               /\ tfr_result' = [text |-> h.text, success |-> FALSE]
               /\ ret_line' = h.line
               /\ UNCHANGED slept
          ELSE /\ tfr_pc' = "loop"
               /\ slept' = Append(slept, h.wait)
               /\ UNCHANGED <<tfr_result, ret_line>>
    /\ asr_calls' = asr_calls + 1
    /\ UNCHANGED <<unit, retries, errors>>

\* the caller has taken the result: the function's locals are gone
tfr_reset ==
    /\ tfr_pc' = "idle"
    /\ unit' = NoFile
    /\ retries' = 0
    /\ asr_calls' = 0
    /\ errors' = <<>>
    /\ slept' = <<>>
    /\ tfr_result' = NoResult
    /\ ret_line' = 0

(***************************************************************************)
(* get_media_duration (src/media.py lines 376-403) on an existing file:    *)
(* the duration a reader finds, or the default when both readers fail.     *)
(***************************************************************************)
DEFAULT_DURATION == 10

get_media_duration(f) == {f.dur, DEFAULT_DURATION}

(***************************************************************************)
(* chunk_audio (src/media.py lines 539-726)                                *)
(***************************************************************************)
\* sizes in MB an ffmpeg run may give a chunk file
ChunkSizes == {5, 21, 26}

\* sizes of the lower-bitrate version of the whole input; -1: not created
LowerBitrateOutcomes == {-1, 1}

NoArgs == [input_file |-> NoFile, max_size_mb |-> 0, max_chunk_duration |-> 0]

\* nothing materialized yet
NoLast == [made |-> 0, size |-> 0, bitrates |-> <<>>]

ChunkName(i) == "chunk_00" \o ToString(i) \o ".mp3"

\* the word heard in the i-th time range of the plan (i from 0)
ChunkWord(i) == "w" \o ToString(i + 1)

\* line 680: the bitrates of the re-encodes, kbit/s
LADDER == <<12, 8, 6>>

RECURSIVE ladder_bitrates(_, _, _)
\* lines 680-710: the bitrates the loop runs ffmpeg with, from rung j on; it
\* breaks after the first re-encode that succeeds and fits
ladder_bitrates(j, retry_sizes, max_size_mb) ==
    IF j > Len(LADDER) THEN <<>>
    ELSE IF retry_sizes[j] # -1 /\ retry_sizes[j] <= max_size_mb THEN <<LADDER[j]>>
    ELSE <<LADDER[j]>> \o ladder_bitrates(j + 1, retry_sizes, max_size_mb)

\* mutant: the file handed back is a re-encoded copy
whole_file_entry_copy(input_file) ==
    <<[file |-> File(ChunkName(0), input_file.size, input_file.dur, TRUE, input_file.word),
       start |-> Frac(0, 1), idx |-> 0]>>

\* line 569: [(input_file, 0)]
whole_file_entry(input_file) ==
    <<[file |-> input_file, start |-> Frac(0, 1), idx |-> 0]>>

\* mutant: a chunk that stays above max_size_mb is left out
append_chunk_if_fits(list, chunk, max_size_mb) ==
    IF chunk.file.size <= max_size_mb THEN Append(list, chunk) ELSE list

\* line 713: chunk_list.append((chunk_file, start_time))
append_chunk(list, chunk, max_size_mb) == Append(list, chunk)

ca_call(input_file, max_size_mb, max_chunk_duration) ==
    /\ ca_pc = "idle"
    /\ ca_pc' = "entry"
    /\ ca_args' = [input_file |-> input_file, max_size_mb |-> max_size_mb,
                   max_chunk_duration |-> max_chunk_duration]
    /\ ca_duration' = 0
    /\ ca_target' = Frac(0, 1)
    /\ ca_count' = 0
    /\ ca_i' = 0
    /\ chunk_list' = <<>>
    /\ ca_result' = <<>>
    /\ plan_count' = 0
    /\ ca_encoded' = FALSE
    /\ ca_last' = NoLast

ca_return(list, count, encoded) ==
    /\ ca_pc' = "done"
    /\ ca_result' = list
    /\ plan_count' = count
    /\ ca_encoded' = encoded
    /\ ca_args' = NoArgs
    /\ ca_duration' = 0
    /\ ca_target' = Frac(0, 1)
    /\ ca_count' = 0
    /\ ca_i' = 0
    /\ chunk_list' = <<>>
    /\ ca_last' = NoLast

ca_plan(input_file, d, target, encoded) ==
    /\ ca_pc' = "chunk"
    /\ ca_args' = [ca_args EXCEPT !.input_file = input_file]
    /\ ca_duration' = d
    /\ ca_target' = target
    /\ ca_count' = chunk_count(d, target)
    /\ ca_encoded' = encoded
    /\ UNCHANGED <<ca_i, chunk_list, ca_result, plan_count, ca_last>>

\* lines 552-627: probe, the no-chunking return, the plan
ca_entry ==
    /\ ca_pc = "entry"
    /\ LET f == ca_args.input_file
           M == ca_args.max_size_mb
           D == ca_args.max_chunk_duration
       IN
       IF ~f.exists
       THEN \* get_media_duration raises FileNotFoundError: line 726
            ca_return(<<>>, 0, FALSE)
       ELSE \E d \in get_media_duration(f) :
              IF f.size <= M /\ d <= D
              THEN ca_return(whole_file_entry(f), 1, FALSE)
              ELSE LET t0 == target_chunk_duration(d, f.size, M, D) IN
                   IF t0.n < 60 * t0.d /\ d > 180
                   THEN \E lb \in LowerBitrateOutcomes :
                          IF lb = -1
                          THEN ca_plan(f, d, t0, TRUE)
                          ELSE ca_plan(File("lower_bitrate.mp3", lb, f.dur, TRUE, f.word),
                                       d, target_chunk_duration(d, lb, M, D), TRUE)
                   ELSE ca_plan(f, d, t0, FALSE)

\* lines 629-713: one iteration of the loop over the plan.
\* made: the size of the chunk file the first ffmpeg run wrote; retry_sizes:
\* what the re-encodes of the ladder give.
ca_materialize(made, retry_sizes) ==
    LET i == ca_i
        M == ca_args.max_size_mb
        st == start_time(i, ca_target)
        en == end_time(i, ca_count, ca_target, ca_duration)
        size == IF made > M THEN ladder(made, retry_sizes, M) ELSE made
        chunk_file == File(ChunkName(i), size, (en.n - st.n) \div st.d, TRUE,
                           ChunkWord(i))
    IN  [file |-> chunk_file, start |-> st, idx |-> i]

\* the ffmpeg runs of that iteration
ca_attempts(made, retry_sizes) ==
    LET M == ca_args.max_size_mb
        first == chunk_bitrate(start_time(ca_i, ca_target),
                               end_time(ca_i, ca_count, ca_target, ca_duration))
    IN  [made |-> made,
         size |-> ca_materialize(made, retry_sizes).file.size,
         bitrates |-> <<first>> \o
                      (IF made > M THEN ladder_bitrates(1, retry_sizes, M) ELSE <<>>)]

ca_chunk ==
    /\ ca_pc = "chunk"
    /\ ca_i < ca_count
    /\ \/ \* lines 667-669: ffmpeg returned non-zero, continue
          /\ chunk_list' = chunk_list
          /\ ca_last' = [made |-> -1, size |-> 0,
                         bitrates |-> <<chunk_bitrate(start_time(ca_i, ca_target),
                                          end_time(ca_i, ca_count, ca_target, ca_duration))>>]
          /\ ca_i' = ca_i + 1
          /\ ca_pc' = IF ca_i + 1 < ca_count THEN "chunk" ELSE "finish"
          /\ ca_encoded' = TRUE
          /\ UNCHANGED <<ca_args, ca_duration, ca_target, ca_count, ca_result,
                         plan_count>>
       \/ \* subprocess.run or os.path.getsize raises: line 726
          ca_return(<<>>, ca_count, TRUE)
       \/ \* line 713: the chunk file is appended
          /\ \E made \in ChunkSizes :
             \E retry_sizes \in [1..3 -> {-1} \cup ChunkSizes] :
                /\ chunk_list' = append_chunk(chunk_list, ca_materialize(made, retry_sizes),
                                              ca_args.max_size_mb)
                /\ ca_last' = ca_attempts(made, retry_sizes)
          /\ ca_i' = ca_i + 1
          /\ ca_pc' = IF ca_i + 1 < ca_count THEN "chunk" ELSE "finish"
          /\ ca_encoded' = TRUE
          /\ UNCHANGED <<ca_args, ca_duration, ca_target, ca_count, ca_result,
                         plan_count>>

\* lines 715-726
ca_finish ==
    /\ ca_pc = "finish"
    /\ IF chunk_list = <<>>
       THEN ca_return(<<>>, ca_count, ca_encoded)
       ELSE ca_return(chunk_list, ca_count, ca_encoded)

\* caller side: the caller has taken the returned list
ca_reset ==
    /\ ca_pc' = "idle"
    /\ ca_result' = <<>>
    /\ UNCHANGED <<ca_args, ca_duration, ca_target, ca_count, ca_i, chunk_list,
                   plan_count, ca_encoded, ca_last>>

(***************************************************************************)
(* transcribe_large_file (src/transcription.py lines 146-377)              *)
(***************************************************************************)
\* the last file is one for which chunk_audio tries the lower-bitrate version
InputFiles ==
    { File(n, s, d, e, "whole") :
        n \in {"in.mp3", "in.mp4"}, s \in {1, 26}, d \in {5, 900}, e \in BOOLEAN }
    \cup {File("in.mp3", 51, 200, TRUE, "whole")}

\* sizes the conditioning tools and the fallback encoders may produce
ExtractedSizes == {1, 26}
OptimizedSizes == {1, 21, 40}
EmergencySizes == {1, 20}
SmallChunkSizes == {1, 20}

\* lines 163-167
is_video(f) == f.name = "in.mp4"

NotFoundError == <<"[Errno 2] No such file or directory">>
UnboundLocalError == <<"local variable 'subprocess' referenced before assignment">>

OuterErrorText(e) ==
    <<"Transcription error:">> \o e
      \o <<". Please try again with a smaller file or in a different format.">>

UnableText ==
    <<"Transcription failed: Unable to process the file. The file may be too large or corrupted.">>

tlf_return(text, line) ==
    /\ pc' = "done"
    /\ tlf_result' = text
    /\ tlf_ret' = line

\* lines 157-176
\* mutant: audio is extracted from every input
first_stage_extract(f) == "extract"

\* lines 166-174: audio is extracted first from a video only
first_stage(f) == IF is_video(f) THEN "extract" ELSE "optimize"

tlf_start ==
    /\ pc = "start"
    /\ \E f \in (IF caller = "none" THEN InputFiles ELSE {file_path}) :
          /\ file_path' = f
          /\ audio_path' = f
          /\ IF demo_mode
             THEN tlf_return(DemoText, 158)
             ELSE /\ pc' = first_stage(f)
                  /\ UNCHANGED <<tlf_result, tlf_ret>>
    /\ UNCHANGED <<optimized_audio, subprocess_bound, chunks, loop_i,
                   transcripts, failed_chunks, outcomes>>
    /\ UNCHANGED <<tfr_vars, ca_vars>>
    /\ UNCHANGED <<extract_failed, duration, conditioning>>

\* lines 177-206: extraction of the audio of a video and the decision to
\* transcribe the extracted audio directly
tlf_extract ==
    /\ pc = "extract"
    /\ \/ \* extract_high_quality_audio raises: line 206
          /\ audio_path' = file_path
          /\ pc' = "optimize"
          /\ extract_failed' = TRUE
          /\ UNCHANGED tfr_vars
       \/ /\ file_path.exists
          /\ UNCHANGED extract_failed
          /\ \E size \in ExtractedSizes :
             \E d \in get_media_duration(file_path) :
               LET extracted == File("extracted_audio.wav", size, file_path.dur,
                                     TRUE, file_path.word)
               IN /\ audio_path' = extracted
                  /\ IF size < MAX_WHISPER_FILE_SIZE_MB /\ d <= 600
                     THEN /\ tfr_call(extracted)
                          /\ pc' = "fast_wait"
                     ELSE /\ pc' = "optimize"
                          /\ UNCHANGED tfr_vars
    /\ UNCHANGED <<file_path, optimized_audio, subprocess_bound, chunks,
                   loop_i, transcripts, failed_chunks, outcomes, tlf_result, tlf_ret>>
    /\ UNCHANGED ca_vars
    /\ UNCHANGED <<duration, conditioning>>

\* lines 194-198 and 203-206
tlf_fast_return ==
    /\ pc = "fast_wait"
    /\ tfr_pc \in {"done", "raised"}
    /\ IF tfr_pc = "raised"
       THEN /\ audio_path' = file_path
            /\ pc' = "optimize"
            /\ UNCHANGED <<tlf_result, tlf_ret>>
       ELSE IF tfr_result.success
       THEN /\ tlf_return(tfr_result.text, 197)
            /\ UNCHANGED audio_path
       ELSE /\ pc' = "optimize"
            /\ UNCHANGED <<audio_path, tlf_result, tlf_ret>>
    /\ tfr_reset
    /\ UNCHANGED <<file_path, optimized_audio, subprocess_bound, chunks,
                   loop_i, transcripts, failed_chunks, outcomes>>
    /\ UNCHANGED ca_vars
    /\ UNCHANGED <<extract_failed, duration, conditioning>>

\* outcomes of the stages of optimize_audio_for_transcription (src/media.py):
\* extraction raises (-1) or writes a file; normalize_audio and
\* apply_noise_reduction hand back their input path ("input", -2), the path
\* of an output file they did not verify and that is missing ("missing", -1:
\* lines 126 and 255), or the path of an output file (for the last stage,
\* its size)
ExtractOutcomes == {-1, 1}
NormalizeOutcomes == {"input", "missing", "made"}
DenoiseOutcomes == {-2, -1} \cup OptimizedSizes

NoConditioning == [extract_ok |-> TRUE, stages |-> <<>>]

\* mutant: after a failed extraction the later stages run on the input file
optimize_audio_keeps_going(input_file, hq, nz, dn) ==
    IF dn \in OptimizedSizes
    THEN [file |-> File("in_optimized.wav", dn, input_file.dur, TRUE, input_file.word),
          extract_ok |-> (hq # -1 /\ input_file.exists),
          stages |-> <<"extract", "normalize", "denoise">>]
    ELSE [file |-> File("in_optimized.wav", 0, input_file.dur, FALSE, input_file.word),
          extract_ok |-> (hq # -1 /\ input_file.exists),
          stages |-> <<"extract", "normalize", "denoise">>]

\* src/media.py lines 326-374: the file handed back and the stages that ran.
\* The clean-up of lines 356-366 removes the extracted and the normalized file,
\* so a path of one of them that a later stage handed back names no file.
optimize_audio_for_transcription(input_file, hq, nz, dn) ==
    IF hq = -1 \/ ~input_file.exists
    THEN \* line 67 or 72 raises, lines 371-374 hand back the input path
         [file |-> input_file, extract_ok |-> FALSE, stages |-> <<"extract">>]
    ELSE [file |->
            IF dn = -2
            THEN File(IF nz = "input" THEN "in_extracted.wav" ELSE "in_normalized.wav",
                      0, input_file.dur, FALSE, input_file.word)
            ELSE IF dn = -1
            THEN File("in_optimized.wav", 0, input_file.dur, FALSE, input_file.word)
            ELSE File("in_optimized.wav", dn, input_file.dur, TRUE, input_file.word),
          extract_ok |-> TRUE,
          stages |-> <<"extract", "normalize", "denoise">>]

\* line 210: what optimize_audio_for_transcription may hand back
OptimizeOutcomes(input_file) ==
    { optimize_audio_for_transcription(input_file, hq, nz, dn) :
        hq \in ExtractOutcomes, nz \in NormalizeOutcomes,
        dn \in DenoiseOutcomes }

tlf_optimize ==
    /\ pc = "optimize"
    /\ \E o \in OptimizeOutcomes(audio_path) :
          /\ optimized_audio' = o.file
          /\ conditioning' = [extract_ok |-> o.extract_ok, stages |-> o.stages]
          /\ extract_failed' = (extract_failed \/ ~o.extract_ok)
    /\ pc' = "sizing"
    /\ UNCHANGED duration
    \* no later line reads file_path; audio_path is kept for one step
    /\ file_path' = NoFile
    /\ UNCHANGED audio_path
    /\ UNCHANGED <<subprocess_bound, chunks, loop_i,
                   transcripts, failed_chunks, outcomes, tlf_result, tlf_ret>>
    /\ UNCHANGED <<tfr_vars, ca_vars>>

\* mutant: only the size forces chunking
force_chunking_by_size(file_size, d) == file_size > 20

\* line 229
force_chunking(file_size, d) == file_size > 20 \/ d > 600


\* lines 214-242
tlf_sizing ==
    /\ pc = "sizing"
    /\ IF ~optimized_audio.exists
       THEN \* os.path.getsize raises: lines 375-377
            /\ tlf_return(OuterErrorText(NotFoundError), 377)
            /\ UNCHANGED tfr_vars
            /\ UNCHANGED duration
       ELSE \E d \in get_media_duration(optimized_audio) :
            /\ duration' = d
            /\ IF optimized_audio.size < MAX_WHISPER_FILE_SIZE_MB
                  /\ ~force_chunking(optimized_audio.size, d)
               THEN /\ tfr_call(optimized_audio)
                    /\ pc' = "direct_wait"
               ELSE /\ pc' = "chunking"
                    /\ UNCHANGED tfr_vars
            /\ UNCHANGED <<tlf_result, tlf_ret>>
    \* no later line reads audio_path: the model forgets it
    /\ audio_path' = NoFile
    /\ UNCHANGED <<file_path, optimized_audio, subprocess_bound, chunks,
                   loop_i, transcripts, failed_chunks, outcomes>>
    /\ UNCHANGED ca_vars
    /\ UNCHANGED <<extract_failed, conditioning>>

\* lines 234-239
tlf_direct_return ==
    /\ pc = "direct_wait"
    /\ tfr_pc \in {"done", "raised"}
    /\ IF tfr_pc = "raised"
       THEN tlf_return(OuterErrorText(NotFoundError), 377)
       ELSE IF tfr_result.success
       THEN tlf_return(tfr_result.text, 236)
       ELSE /\ pc' = "chunking"
            /\ UNCHANGED <<tlf_result, tlf_ret>>
    /\ tfr_reset
    /\ UNCHANGED <<file_path, audio_path, optimized_audio, subprocess_bound,
                   chunks, loop_i, transcripts, failed_chunks, outcomes>>
    /\ UNCHANGED ca_vars
    \* no later line reads duration
    /\ duration' = 0
    /\ UNCHANGED <<extract_failed, conditioning>>

\* line 249
max_chunk_size_mb(file_size_mb) == IF file_size_mb > 50 THEN 15 ELSE 20

\* lines 244-257
tlf_chunking ==
    /\ pc = "chunking"
    /\ ca_call(optimized_audio, max_chunk_size_mb(optimized_audio.size), 540)
    /\ pc' = "chunk_wait"
    \* no later line reads duration
    /\ duration' = 0
    /\ UNCHANGED <<file_path, audio_path, optimized_audio, subprocess_bound,
                   chunks, loop_i, transcripts, failed_chunks, outcomes,
                   tlf_result, tlf_ret, extract_failed, conditioning>>
    /\ UNCHANGED tfr_vars

\* line 259: the chunks of chunk_audio, or the emergency tier
tlf_chunks_back ==
    /\ pc = "chunk_wait"
    /\ ca_pc = "done"
    /\ chunks' = ca_result
    /\ pc' = IF ca_result = <<>> THEN "emergency" ELSE "loop"
    /\ loop_i' = 1
    \* the chunk loop and the lines after it do not read optimized_audio
    /\ optimized_audio' = IF ca_result = <<>> THEN optimized_audio ELSE NoFile
    /\ ca_reset
    /\ UNCHANGED <<file_path, audio_path, subprocess_bound,
                   transcripts, failed_chunks, outcomes, tlf_result, tlf_ret>>
    /\ UNCHANGED tfr_vars
    /\ UNCHANGED <<extract_failed, duration, conditioning>>

\* mutant: the emergency file is transcribed whatever its size
emergency_allowed_any(emergency_size) == TRUE

\* line 278: only try if the emergency file is small enough
emergency_allowed(emergency_size) == emergency_size < 20

\* lines 260-283: `import subprocess` binds the local name, then the
\* emergency file is encoded and, if small enough, transcribed
tlf_emergency ==
    /\ pc = "emergency"
    /\ subprocess_bound' = TRUE
    /\ \/ \* no emergency file (the tool failed or raised) or one of 20 MB or more
          /\ pc' = "extreme"
          /\ UNCHANGED tfr_vars
       \/ \E size \in EmergencySizes :
            /\ emergency_allowed(size)
            /\ tfr_call(File("emergency.mp3", size, optimized_audio.dur, TRUE,
                             optimized_audio.word))
            /\ pc' = "emergency_wait"
    /\ UNCHANGED <<file_path, audio_path, optimized_audio, chunks, loop_i,
                   transcripts, failed_chunks, outcomes, tlf_result, tlf_ret>>
    /\ UNCHANGED ca_vars
    /\ UNCHANGED <<extract_failed, duration, conditioning>>

\* lines 279-283
tlf_emergency_return ==
    /\ pc = "emergency_wait"
    /\ tfr_pc \in {"done", "raised"}
    /\ IF tfr_pc = "done" /\ tfr_result.success
       THEN tlf_return(tfr_result.text, 281)
       ELSE /\ pc' = "extreme"
            /\ UNCHANGED <<tlf_result, tlf_ret>>
    /\ tfr_reset
    /\ UNCHANGED <<file_path, audio_path, optimized_audio, subprocess_bound,
                   chunks, loop_i, transcripts, failed_chunks, outcomes>>
    /\ UNCHANGED ca_vars
    /\ UNCHANGED <<extract_failed, duration, conditioning>>

\* lines 286-308: the extremely compressed file and the second chunk_audio
ExtremeOutcomes(f) ==
    {File("extreme_compressed.mp3", 0, f.dur, FALSE, f.word)} \cup
    { File("extreme_compressed.mp3", size, f.dur, TRUE, f.word) : size \in {1, 11} }

tlf_extreme ==
    /\ pc = "extreme"
    /\ \/ \* os.makedirs or subprocess.run raises: lines 315-317
          /\ tlf_return(UnableText, 317)
          /\ UNCHANGED ca_vars
       \/ \E extreme_audio \in ExtremeOutcomes(optimized_audio) :
            /\ ca_call(extreme_audio, 10, 300)
            /\ pc' = "extreme_wait"
            /\ UNCHANGED <<tlf_result, tlf_ret>>
    /\ UNCHANGED <<file_path, audio_path, optimized_audio, subprocess_bound,
                   chunks, loop_i, transcripts, failed_chunks, outcomes>>
    /\ UNCHANGED tfr_vars
    /\ UNCHANGED <<extract_failed, duration, conditioning>>

\* lines 310-314
tlf_extreme_back ==
    /\ pc = "extreme_wait"
    /\ ca_pc = "done"
    /\ IF ca_result # <<>>
       THEN /\ chunks' = ca_result
            /\ pc' = "loop"
            /\ UNCHANGED <<tlf_result, tlf_ret>>
       ELSE /\ tlf_return(UnableText, 314)
            /\ UNCHANGED chunks
    /\ loop_i' = 1
    /\ optimized_audio' = NoFile
    /\ ca_reset
    /\ UNCHANGED <<file_path, audio_path, subprocess_bound,
                   transcripts, failed_chunks, outcomes>>
    /\ UNCHANGED tfr_vars
    /\ UNCHANGED <<extract_failed, duration, conditioning>>

\* mutant: a new transcript is put in front of the earlier ones
record_outcome_prepend(transcript_list, failed_list, position, text, success) ==
    IF success
    THEN [transcripts |-> <<text>> \o transcript_list, failed |-> failed_list]
    ELSE [transcripts |-> transcript_list, failed |-> Append(failed_list, position)]

\* what lines 324-356 record for one chunk
record_outcome(transcript_list, failed_list, position, text, success) ==
    IF success
    THEN [transcripts |-> Append(transcript_list, text), failed |-> failed_list]
    ELSE [transcripts |-> transcript_list, failed |-> Append(failed_list, position)]

tlf_next_chunk ==
    /\ loop_i' = loop_i + 1
    /\ pc' = IF loop_i + 1 <= Len(chunks) THEN "loop" ELSE "combine"

\* lines 324-347: the size check of a chunk, the re-encoding of a chunk
\* above 20 MB, and the call of transcribe_file_with_retries
tlf_loop ==
    /\ pc = "loop"
    /\ LET c == chunks[loop_i] IN
       IF ~c.file.exists \/ (c.file.size > 20 /\ ~subprocess_bound)
       THEN \* os.path.getsize or the unbound name subprocess raises: line 356
            LET r == record_outcome(transcripts, failed_chunks, loop_i, <<>>, FALSE) IN
            /\ transcripts' = r.transcripts
            /\ failed_chunks' = r.failed
            /\ outcomes' = Append(outcomes, [ok |-> FALSE, text |-> <<>>, asr |-> FALSE])
            /\ tlf_next_chunk
            /\ UNCHANGED tfr_vars
       ELSE /\ IF c.file.size > 20
               THEN \/ \* no usable small_ file: the chunk itself is sent
                       tfr_call(c.file)
                    \/ \E size \in SmallChunkSizes :
                         /\ size < 20
                         /\ tfr_call(File("small_" \o c.file.name, size, c.file.dur,
                                          TRUE, c.file.word))
               ELSE tfr_call(c.file)
            /\ pc' = "unit_wait"
            /\ UNCHANGED <<loop_i, transcripts, failed_chunks, outcomes>>
    /\ UNCHANGED <<file_path, audio_path, optimized_audio, subprocess_bound,
                   chunks, tlf_result, tlf_ret>>
    /\ UNCHANGED ca_vars
    /\ UNCHANGED <<extract_failed, duration, conditioning>>

\* lines 347-356
tlf_unit_return ==
    /\ pc = "unit_wait"
    /\ tfr_pc \in {"done", "raised"}
    /\ LET ok == tfr_pc = "done" /\ tfr_result.success
           r == record_outcome(transcripts, failed_chunks, loop_i, tfr_result.text, ok)
       IN /\ transcripts' = r.transcripts
          /\ failed_chunks' = r.failed
          /\ outcomes' = Append(outcomes,
                [ok |-> ok, text |-> IF ok THEN tfr_result.text ELSE <<>>,
                 asr |-> asr_calls > 0])
    /\ tlf_next_chunk
    /\ tfr_reset
    /\ UNCHANGED <<file_path, audio_path, optimized_audio, subprocess_bound,
                   chunks, tlf_result, tlf_ret>>
    /\ UNCHANGED ca_vars
    /\ UNCHANGED <<extract_failed, duration, conditioning>>

\* lines 358-373
tlf_combine ==
    /\ pc = "combine"
    /\ LET r == combine_transcripts(transcripts, failed_chunks) IN
       tlf_return(r.text, r.line)
    /\ UNCHANGED <<file_path, audio_path, optimized_audio, subprocess_bound,
                   chunks, loop_i, transcripts, failed_chunks, outcomes>>
    /\ UNCHANGED <<tfr_vars, ca_vars>>
    /\ UNCHANGED <<extract_failed, duration, conditioning>>

(***************************************************************************)
(* A direct caller of chunk_audio: it calls the function on one file after *)
(* the other, with the limits transcribe_large_file passes.                *)
(***************************************************************************)
PlanFiles ==
    { File("a.mp3", s, d, e, "whole") :
        s \in {10, 25}, d \in {1, 2, 300, 1200}, e \in BOOLEAN }
    \cup {File("a.mp3", 40, 1200, TRUE, "whole")}

\* lines 252-257 and 303-308
PlanLimits ==
    { [max_size_mb |-> 20, max_chunk_duration |-> 540],
      [max_size_mb |-> 10, max_chunk_duration |-> 300] }

plan_call ==
    /\ pc = "plan"
    /\ \E f \in PlanFiles : \E l \in PlanLimits :
          ca_call(f, l.max_size_mb, l.max_chunk_duration)
    /\ UNCHANGED <<pc, max_retries, exhaust_log, tfr_vars, tlf_vars, pas_vars, cond_vars, req_vars, merge_vars>>

plan_return ==
    /\ pc = "plan"
    /\ ca_pc = "done"
    /\ ca_reset
    /\ UNCHANGED <<pc, max_retries, exhaust_log, tfr_vars, tlf_vars, pas_vars, cond_vars, req_vars, merge_vars>>

(***************************************************************************)
(* process_and_store (src/transcription.py lines 379-452)                  *)
(***************************************************************************)
\* mutant: every file is given to transcribe_large_file
is_large_file_always(file_size, d) == TRUE

\* line 412
is_large_file(file_size, d) ==
    file_size > MAX_WHISPER_FILE_SIZE_MB \/ (d > 0 /\ d > 600)

\* lines 394-423: the probe, the choice of the transcription method, the call
pas_start ==
    /\ pc = "pas_start"
    /\ \E f \in InputFiles :
         IF ~f.exists
         THEN \* line 396: os.path.getsize raises, re-raised at line 452
              /\ pc' = "pas_raised"
              /\ UNCHANGED <<file_path, caller, tfr_vars>>
         ELSE \E d \in get_media_duration(f) :
              /\ file_path' = f
              /\ caller' = "process_and_store"
              /\ IF is_large_file(f.size, d)
                 THEN /\ pc' = "start"
                      /\ UNCHANGED tfr_vars
                 ELSE /\ pc' = "pas_std_wait"
                      /\ tfr_call(f)
    /\ UNCHANGED <<audio_path, optimized_audio, subprocess_bound, chunks, loop_i,
                   transcripts, failed_chunks, outcomes, tlf_result, tlf_ret,
                   extract_failed, duration, conditioning>>
    /\ UNCHANGED <<max_retries, exhaust_log, stored, ca_vars, cond_vars, req_vars, merge_vars>>

\* lines 420 and 426-449: the string transcribe_large_file returned is stored
pas_large_return ==
    /\ pc = "done"
    /\ caller = "process_and_store"
    /\ \/ \* supabase.store_transcript raises, re-raised at line 452
          /\ pc' = "pas_raised"
          /\ UNCHANGED stored
       \/ /\ stored' = Append(stored, tlf_result)
          /\ pc' = "pas_done"
    /\ UNCHANGED <<max_retries, exhaust_log, caller, tfr_vars, ca_vars, tlf_vars,
                   cond_vars, req_vars, merge_vars>>

\* mutant: the text of a failed direct transcription is not kept
direct_transcript_if_success(result) ==
    IF result.success THEN result.text ELSE <<>>

\* lines 423-424: transcript_result, success = ...; transcript = transcript_result
direct_transcript(result) == result.text

\* lines 423-449: the text of the (text, success) pair is stored, the flag
\* is not read
pas_std_return ==
    /\ pc = "pas_std_wait"
    /\ tfr_pc \in {"done", "raised"}
    /\ IF tfr_pc = "raised"
       THEN /\ pc' = "pas_raised"
            /\ UNCHANGED stored
       ELSE \/ /\ pc' = "pas_raised"
               /\ UNCHANGED stored
            \/ /\ stored' = Append(stored, direct_transcript(tfr_result))
               /\ pc' = "pas_done"
    /\ tfr_reset
    /\ UNCHANGED <<max_retries, exhaust_log, caller, ca_vars, tlf_vars, cond_vars,
                   req_vars, merge_vars>>

(***************************************************************************)
(* A direct caller of transcribe_file_with_retries: it calls the function  *)
(* on one file after the other, every time with the same max_retries.      *)
(***************************************************************************)
DirectFiles ==
    { File("input.mp3", s, 5, e, "whole") :
        s \in {1, MAX_WHISPER_FILE_SIZE_MB, MAX_WHISPER_FILE_SIZE_MB + 1},
        e \in BOOLEAN }

\* the run ended by exhausting its retries, all its failures being of one kind
ExhaustedKind ==
    IF ret_line \in {133, 144} /\ errors # <<>>
    THEN IF \A k \in 1..Len(errors) : IsRateLimit(errors[k]) /\ ~IsTooLarge(errors[k])
         THEN "rate_limit"
         ELSE IF \A k \in 1..Len(errors) : IsTransient(errors[k])
         THEN "transient"
         ELSE "mixed"
    ELSE "none"

direct_call ==
    /\ pc = "direct"
    /\ \E f \in DirectFiles : tfr_call(f)
    /\ UNCHANGED <<pc, max_retries, exhaust_log, ca_vars, tlf_vars, pas_vars, cond_vars, req_vars, merge_vars>>

direct_return ==
    /\ pc = "direct"
    /\ tfr_pc \in {"done", "raised"}
    /\ exhaust_log' =
          IF ExhaustedKind \in {"rate_limit", "transient"}
          THEN exhaust_log \cup {[kind |-> ExhaustedKind, calls |-> asr_calls]}
          ELSE exhaust_log
    /\ tfr_reset
    /\ UNCHANGED <<pc, max_retries, ca_vars, tlf_vars, pas_vars, cond_vars, req_vars, merge_vars>>

(***************************************************************************)
(* The conditioning stages (src/media.py lines 22-374) and the duration    *)
(* probe (lines 376-478), called directly on the files of one directory.   *)
(***************************************************************************)
NoPath == ""
InputPath == "in.mp3"
\* lines 333, 340, 346: the paths optimize_audio_for_transcription builds
ExtractedPath == "in_extracted.wav"
NormalizedPath == "in_normalized.wav"
FinalOutput == "in_optimized.wav"

CondPaths == {InputPath, ExtractedPath, NormalizedPath, FinalOutput}

\* os.path.exists(path)
path_exists(fsys, path) == fsys[path] >= 0

\* os.path.exists(path) and os.path.getsize(path) > 0
path_has_data(fsys, path) == fsys[path] > 0

\* one run of ffmpeg writing a file: it returns 0 and leaves a file with
\* data ("ok") or an empty file ("empty"), returns non-zero and leaves no
\* file ("fail"), or subprocess.run raises ("raise")
ToolOutcomes == {"ok", "empty", "fail", "raise"}

\* a run on an input that is missing or empty cannot succeed
ToolOutcomesOn(fsys, input_file) ==
    IF path_has_data(fsys, input_file) THEN ToolOutcomes ELSE {"fail", "raise"}

\* the files after `ffmpeg -i input_file ... -y output_file`
run_tool(fsys, output_file, o) ==
    IF o = "ok" THEN [fsys EXCEPT ![output_file] = 1]
    ELSE IF o = "empty" THEN [fsys EXCEPT ![output_file] = 0]
    ELSE fsys

\* the loudness analysis (lines 109-136): subprocess.run raises, ffmpeg
\* returns non-zero, its output holds no JSON, JSON that does not parse, or
\* the measurements
AnalyzeOutcomes == {"raise", "fail", "nojson", "badjson", "ok"}

AnalyzeOutcomesOn(fsys, input_file) ==
    IF path_has_data(fsys, input_file) THEN AnalyzeOutcomes ELSE {"fail", "raise"}

\* the volume measurement (lines 217-248): subprocess.run raises, ffmpeg
\* returns non-zero, no mean_volume in its output, a mean volume of at most
\* -25 dB, a mean volume above -25 dB
MeasureOutcomes == {"raise", "fail", "nomatch", "quiet", "noisy"}

MeasureOutcomesOn(fsys, input_file) ==
    IF path_has_data(fsys, input_file) THEN MeasureOutcomes ELSE {"fail", "raise"}

\* what a stage hands back: the path returned (or the exception), the files
\* after it, the tools it ran, and whether the check of the output file
\* (exists and is not empty) was made before the return; the caller notes
\* the name of the stage and what the volume measurement found
StageResult(ret, raised, fsys, runs, verified) ==
    [ret |-> ret, raised |-> raised, fs |-> fsys, runs |-> runs,
     verified |-> verified, name |-> "", measure |-> ""]

NoStage == StageResult(NoPath, FALSE, [q \in CondPaths |-> -1], <<>>, FALSE)

\* lines 33-79
extract_high_quality_audio(input_file, output_file, fsys, tool) ==
    LET after == run_tool(fsys, output_file, tool) IN
    IF tool \in {"raise", "fail"}
    THEN \* line 67, or the exception of subprocess.run: re-raised at line 79
         StageResult(NoPath, TRUE, fsys, <<"extract">>, FALSE)
    ELSE IF ~path_has_data(after, output_file)
    THEN \* line 72
         StageResult(NoPath, TRUE, after, <<"extract">>, TRUE)
    ELSE StageResult(output_file, FALSE, after, <<"extract">>, TRUE)

\* lines 178-184
verify_normalized(input_file, output_file, fsys, runs) ==
    StageResult(IF path_has_data(fsys, output_file) THEN output_file ELSE input_file,
                FALSE, fsys, runs, TRUE)

\* lines 92-188
normalize_audio(input_file, output_file, fsys, analyze, pass2, copy) ==
    LET copied == run_tool(fsys, output_file, copy) IN
    IF analyze = "raise"
    THEN \* lines 186-188
         StageResult(input_file, FALSE, fsys, <<"analyze">>, FALSE)
    ELSE IF analyze = "fail"
    THEN \* lines 121-126: the copy, then return output_file
         IF copy = "raise"
         THEN StageResult(input_file, FALSE, fsys, <<"analyze", "copy">>, FALSE)
         ELSE StageResult(output_file, FALSE, copied, <<"analyze", "copy">>, FALSE)
    ELSE IF analyze \in {"nojson", "badjson"}
    THEN \* lines 167-176
         IF copy = "raise"
         THEN StageResult(input_file, FALSE, fsys, <<"analyze", "copy">>, FALSE)
         ELSE verify_normalized(input_file, output_file, copied, <<"analyze", "copy">>)
    ELSE \* lines 138-166: the second pass, and the copy when it fails
         IF pass2 = "raise"
         THEN StageResult(input_file, FALSE, fsys, <<"analyze", "loudnorm">>, FALSE)
         ELSE IF pass2 = "fail"
         THEN IF copy = "raise"
              THEN StageResult(input_file, FALSE, fsys,
                               <<"analyze", "loudnorm", "copy">>, FALSE)
              ELSE verify_normalized(input_file, output_file, copied,
                                     <<"analyze", "loudnorm", "copy">>)
         ELSE verify_normalized(input_file, output_file,
                                run_tool(fsys, output_file, pass2),
                                <<"analyze", "loudnorm">>)

\* lines 300-306
verify_denoised(input_file, output_file, fsys, runs) ==
    StageResult(IF path_has_data(fsys, output_file) THEN output_file ELSE input_file,
                FALSE, fsys, runs, TRUE)

\* lines 242-243: has_noise
has_noise(measure) == measure = "noisy"

\* lines 202-310; the look-up of the arnndn filter (lines 257-289) chooses
\* the filter of the command and nothing else
apply_noise_reduction(input_file, output_file, fsys, measure, filter, copy) ==
    LET copied == run_tool(fsys, output_file, copy) IN
    IF ~has_noise(measure)
    THEN \* lines 250-255: the copy, then return output_file
         IF copy = "raise"
         THEN StageResult(input_file, FALSE, fsys, <<"volumedetect", "copy">>, FALSE)
         ELSE StageResult(output_file, FALSE, copied, <<"volumedetect", "copy">>, FALSE)
    ELSE IF filter = "raise"
    THEN StageResult(input_file, FALSE, fsys, <<"volumedetect", "denoise">>, FALSE)
    ELSE IF filter = "fail"
    THEN \* lines 294-298
         IF copy = "raise"
         THEN StageResult(input_file, FALSE, fsys,
                          <<"volumedetect", "denoise", "copy">>, FALSE)
         ELSE verify_denoised(input_file, output_file, copied,
                              <<"volumedetect", "denoise", "copy">>)
    ELSE verify_denoised(input_file, output_file,
                         run_tool(fsys, output_file, filter),
                         <<"volumedetect", "denoise">>)

\* lines 356-366: os.remove of one intermediate file
remove_intermediate(fsys, path, input_file, final_output) ==
    IF path_exists(fsys, path) /\ path # input_file /\ path # final_output
    THEN [fsys EXCEPT ![path] = -1]
    ELSE fsys

NoOptResult == [raised |-> FALSE, path |-> NoPath]

\* caller side: optimize_audio_for_transcription is called on the input file
\* of a directory that holds nothing else
cond_call ==
    /\ pc = "cond"
    /\ opt_pc = "idle"
    /\ \E given \in {-1, 1} :
          fs' = [q \in CondPaths |-> IF q = InputPath THEN given ELSE -1]
    /\ opt_pc' = "extract"
    /\ opt_input' = InputPath
    /\ hq_audio' = NoPath
    /\ normalized_audio' = NoPath
    /\ final_audio' = NoPath
    /\ opt_result' = NoOptResult
    /\ stage' = NoStage
    /\ probe' = [called |-> FALSE]

\* lines 326-341 and 371-374
cond_extract ==
    /\ opt_pc = "extract"
    /\ \E tool \in ToolOutcomesOn(fs, opt_input) :
         LET r == extract_high_quality_audio(opt_input, ExtractedPath, fs, tool) IN
         /\ fs' = r.fs
         /\ stage' = [r EXCEPT !.name = "extract"]
         /\ IF r.raised
            THEN /\ opt_pc' = "done"
                 /\ opt_result' = [raised |-> FALSE, path |-> opt_input]
                 /\ UNCHANGED hq_audio
            ELSE /\ opt_pc' = "normalize"
                 /\ hq_audio' = r.ret
                 /\ UNCHANGED opt_result
    /\ UNCHANGED <<opt_input, normalized_audio, final_audio, probe>>

\* lines 343-347
cond_normalize ==
    /\ opt_pc = "normalize"
    /\ \E analyze \in AnalyzeOutcomesOn(fs, hq_audio) :
       \E pass2 \in ToolOutcomesOn(fs, hq_audio) :
       \E copy \in ToolOutcomesOn(fs, hq_audio) :
         LET r == normalize_audio(hq_audio, NormalizedPath, fs, analyze, pass2, copy) IN
         /\ fs' = r.fs
         /\ stage' = [r EXCEPT !.name = "normalize"]
         /\ normalized_audio' = r.ret
    /\ opt_pc' = "denoise"
    /\ UNCHANGED <<opt_input, hq_audio, final_audio, opt_result, probe>>

\* lines 349-353
cond_denoise ==
    /\ opt_pc = "denoise"
    /\ \E measure \in MeasureOutcomesOn(fs, normalized_audio) :
       \E filter \in ToolOutcomesOn(fs, normalized_audio) :
       \E copy \in ToolOutcomesOn(fs, normalized_audio) :
         LET r == apply_noise_reduction(normalized_audio, FinalOutput, fs,
                                        measure, filter, copy) IN
         /\ fs' = r.fs
         /\ stage' = [r EXCEPT !.name = "denoise", !.measure = measure]
         /\ final_audio' = r.ret
    /\ opt_pc' = "cleanup"
    /\ UNCHANGED <<opt_input, hq_audio, normalized_audio, opt_result, probe>>

\* lines 355-369
cond_cleanup ==
    /\ opt_pc = "cleanup"
    /\ fs' = remove_intermediate(
                remove_intermediate(fs, hq_audio, opt_input, FinalOutput),
                normalized_audio, opt_input, FinalOutput)
    /\ opt_result' = [raised |-> FALSE, path |-> final_audio]
    /\ opt_pc' = "done"
    /\ UNCHANGED <<opt_input, hq_audio, normalized_audio, final_audio, stage, probe>>

\* readings of ffprobe (lines 426-439): subprocess.run or the parsing
\* raises, ffprobe returns non-zero, or the duration in tenths of a second
ProbeDurations == {-5, 0, 4, 15, 6004}

ProbeOutcomes ==
    {[kind |-> "raise", tenths |-> 0], [kind |-> "fail", tenths |-> 0]}
    \cup { [kind |-> "ok", tenths |-> t] : t \in ProbeDurations }

\* int(float(duration_str)), the duration being given in tenths of a second
int_of_tenths(t) == IF t >= 0 THEN t \div 10 ELSE -((-t) \div 10)

\* mutant: the reading is not raised to 1 second
get_duration_with_ffprobe_as_read(r) ==
    IF r.kind = "ok" THEN int_of_tenths(r.tenths) ELSE 0

\* lines 415-439
get_duration_with_ffprobe(r) ==
    IF r.kind = "ok" THEN Max(1, int_of_tenths(r.tenths)) ELSE 0

\* what ffmpeg prints (lines 460-478): subprocess.run raises, no
\* "Duration: hh:mm:ss.cc" in the output, or the fields of one
MpegOutcomes ==
    {[kind |-> "raise", h |-> 0, m |-> 0, s |-> 0],
     [kind |-> "nomatch", h |-> 0, m |-> 0, s |-> 0]}
    \cup { [kind |-> "match", h |-> h, m |-> m, s |-> sec] :
             h \in {0, 1}, m \in {0, 10}, sec \in {0, 4} }

\* lines 475 and 478
FFMPEG_DEFAULT_DURATION == 10

\* lines 451-478
get_duration_with_ffmpeg(r) ==
    IF r.kind = "match"
    THEN Max(1, r.h * 3600 + r.m * 60 + r.s)
    ELSE FFMPEG_DEFAULT_DURATION

\* lines 388-403: get_media_duration on a path, given what the two readers find
media_duration(exists, ffprobe, ffmpeg) ==
    IF ~exists
    THEN [raised |-> TRUE, value |-> 0]
    ELSE LET d == get_duration_with_ffprobe(ffprobe) IN
         [raised |-> FALSE,
          value |-> IF d > 0 THEN d ELSE get_duration_with_ffmpeg(ffmpeg)]

\* caller side: the file handed back is probed, as at lines 214-225 of
\* src/transcription.py
cond_probe ==
    /\ pc = "cond"
    /\ opt_pc = "done"
    /\ LET path == opt_result.path
           readable == path_has_data(fs, path)
       IN \E ffprobe \in (IF readable THEN ProbeOutcomes
                          ELSE { r \in ProbeOutcomes : r.kind # "ok" }) :
          \E ffmpeg \in (IF readable THEN MpegOutcomes
                         ELSE { r \in MpegOutcomes : r.kind # "match" }) :
            probe' = [called |-> TRUE, path |-> path,
                      existed |-> path_exists(fs, path),
                      ffprobe |-> ffprobe, ffmpeg |-> ffmpeg,
                      result |-> media_duration(path_exists(fs, path), ffprobe, ffmpeg)]
    /\ opt_pc' = "idle"
    /\ UNCHANGED <<fs, opt_input, hq_audio, normalized_audio, final_audio,
                   opt_result, stage>>

(***************************************************************************)
(* The files of transcribe_large_file (src/transcription.py lines 160-377  *)
(* and the functions of src/media.py it calls), for two requests that run  *)
(* concurrently.  Texts, sizes and durations are left out; what is kept is *)
(* which paths each step reads, writes and removes, and whether the call   *)
(* it waits for ever answers.                                              *)
(***************************************************************************)
Requests == {1, 2}

\* a path: the top directory, the directory below it ("" for none), the name
Path(top, sub, name) == [top |-> top, sub |-> sub, name |-> name]

NoDir == ""
UploadsDir == "uploads"

\* the files a caller may hand to a request; two requests may get the same
RequestInputs == { Path(UploadsDir, "", n) : n \in {"in.mp3", "in.mp4"} }

\* line 170: tempfile.TemporaryDirectory() makes a directory that did not exist
fresh_dir(n) == "tmp" \o ToString(n)

\* os.path.join(directory, name) below a top directory
in_dir(top, name) == Path(top, "", name)

\* mutant: the chunks go to one directory of the working directory
chunks_dir_shared(temp_dir) == [top |-> "cwd", sub |-> "chunks"]

\* line 245: os.path.join(temp_dir, "chunks")
chunks_dir(temp_dir) == [top |-> temp_dir, sub |-> "chunks"]

\* line 288: os.path.join(temp_dir, "extreme_chunks")
extreme_chunks_dir(temp_dir) == [top |-> temp_dir, sub |-> "extreme_chunks"]

\* src/media.py lines 583 and 638: a file of the chunks directory
chunk_path(dir, name) == Path(dir.top, dir.sub, name)

\* line 333: os.path.join(os.path.dirname(chunk_path), "small_" + basename)
small_chunk(path) == [path EXCEPT !.name = "small_" \o path.name]

\* src/media.py line 332: os.path.splitext(os.path.basename(input_file))[0]
stem(path) ==
    CASE path.name = "in.mp3" -> "in"
      [] path.name = "in.mp4" -> "in"
      [] path.name = "extracted_audio.wav" -> "extracted_audio"
      [] OTHER -> path.name

\* mutant: the directory of the intermediate files is one made by mkdtemp
conditioning_dir_mkdtemp(output_dir) == "mkdtemp"

\* src/media.py line 328: temp_dir = output_dir or tempfile.mkdtemp()
conditioning_dir(output_dir) ==
    IF output_dir # NoDir THEN output_dir ELSE "mkdtemp"

\* src/media.py lines 333-352: the three files of the conditioning pipeline
conditioning_paths(input_file, output_dir) ==
    [extracted  |-> in_dir(conditioning_dir(output_dir), stem(input_file) \o "_extracted.wav"),
     normalized |-> in_dir(conditioning_dir(output_dir), stem(input_file) \o "_normalized.wav"),
     optimized  |-> in_dir(conditioning_dir(output_dir), stem(input_file) \o "_optimized.wav")]

\* the timeout argument of the subprocess.run calls: none is passed
NoTimeout == 0
SUBPROCESS_TIMEOUT == NoTimeout

\* a call whose callee never answers: without a timeout the caller waits for
\* ever, with one the call raises
on_silence(timeout) == IF timeout = NoTimeout THEN "blocked" ELSE "raise"

\* what an ASR call comes to (transcribe_file_with_retries, lines 103-141):
\* a text, a failure after the retries, or no answer.  No timeout is passed
\* to the client, so whether the client library gives up is not decided by
\* this code: both are possible.
AsrOutcomes == {"text", "failed", "blocked"}

\* the top directories of a set of paths
tops(paths) == { q.top : q \in paths }

\* the local variables of a request, and their values outside a call
NoPathYet == Path(NoDir, "", "")
NoLocals == [input |-> NoPathYet, audio |-> NoPathYet, optimized |-> NoPathYet,
             chunks |-> <<>>, i |-> 0, bound |-> FALSE]
Locals(r) == [input |-> rq_input[r], audio |-> rq_audio[r],
              optimized |-> rq_optimized[r], chunks |-> rq_chunks[r],
              i |-> rq_i[r], bound |-> rq_bound[r]]

\* one step of a request: it goes to next_pc with the local variables loc,
\* having read the paths reads, run tools that write to the paths touched,
\* of which made exist after, and removed the paths removes.  Leaving the
\* `with` block of line 170 removes the temporary directory and everything
\* below it, and the locals of a call that has returned are gone.
rq_step(r, next_pc, loc, reads, touched, made, removes) ==
    LET after == (disk \cup made) \ removes
        swept == IF next_pc = "ended"
                 THEN { q \in after : q.top = rq_dir[r] }
                 ELSE {}
        kept == IF next_pc = "ended" THEN NoLocals ELSE loc
    IN  /\ rq_pc' = [rq_pc EXCEPT ![r] = next_pc]
        /\ disk' = after \ swept
        /\ rq_read' = [rq_read EXCEPT ![r] = @ \cup tops(reads)]
        /\ rq_written' = [rq_written EXCEPT ![r] =
                             @ \cup tops(touched \cup removes \cup swept)]
        /\ rq_input' = [rq_input EXCEPT ![r] = kept.input]
        /\ rq_audio' = [rq_audio EXCEPT ![r] = kept.audio]
        /\ rq_optimized' = [rq_optimized EXCEPT ![r] = kept.optimized]
        /\ rq_chunks' = [rq_chunks EXCEPT ![r] = kept.chunks]
        /\ rq_i' = [rq_i EXCEPT ![r] = kept.i]
        /\ rq_bound' = [rq_bound EXCEPT ![r] = kept.bound]

\* where a request goes after an ASR call made at a point of the function
after_asr(asr, on_failure) ==
    CASE asr = "text" -> "ended"
      [] asr = "failed" -> on_failure
      [] OTHER -> "blocked"

\* lines 157-176
rq_start(r) ==
    /\ rq_pc[r] = "start"
    /\ \E f \in RequestInputs :
         rq_step(r, first_stage(f), [Locals(r) EXCEPT !.input = f, !.audio = f],
                 {}, {}, {}, {})
    /\ dirs_made' = dirs_made + 1
    /\ rq_dir' = [rq_dir EXCEPT ![r] = fresh_dir(dirs_made + 1)]

\* lines 177-206
rq_extract(r) ==
    /\ rq_pc[r] = "extract"
    /\ LET extracted == in_dir(rq_dir[r], "extracted_audio.wav")
           from_input == [Locals(r) EXCEPT !.input = NoPathYet]
           from_extracted == [Locals(r) EXCEPT !.input = NoPathYet, !.audio = extracted]
       IN
       \/ \* ffmpeg never answers
          rq_step(r, on_silence(SUBPROCESS_TIMEOUT), Locals(r),
                  {rq_input[r]}, {extracted}, {}, {})
       \/ \* extraction raises: line 206
          rq_step(r, "optimize", from_input, {rq_input[r]}, {extracted}, {}, {})
       \/ \* extracted, too large or too long for the direct call
          rq_step(r, "optimize", from_extracted,
                  {rq_input[r], extracted}, {extracted}, {extracted}, {})
       \/ \* extracted and transcribed directly: lines 194-198
          \E asr \in AsrOutcomes :
            rq_step(r, after_asr(asr, "optimize"), from_extracted,
                    {rq_input[r], extracted}, {extracted}, {extracted}, {})
    /\ UNCHANGED <<dirs_made, rq_dir>>

\* line 210 and src/media.py lines 326-374
rq_optimize(r) ==
    /\ rq_pc[r] = "optimize"
    /\ LET c == conditioning_paths(rq_audio[r], rq_dir[r])
           all == {c.extracted, c.normalized, c.optimized}
           handing(path) == [Locals(r) EXCEPT !.input = NoPathYet,
                                              !.audio = NoPathYet,
                                              !.optimized = path]
       IN
       \/ \* a tool never answers
          rq_step(r, on_silence(SUBPROCESS_TIMEOUT), Locals(r),
                  {rq_audio[r]}, {c.extracted}, {}, {})
       \/ \* extraction raises: the input path is handed back
          rq_step(r, "sizing", handing(rq_audio[r]), {rq_audio[r]}, {c.extracted}, {}, {})
       \/ \* the three stages ran; the intermediate files are removed,
          \* and the path handed back may be one of them
          \E handed \in {c.normalized, c.optimized} :
            rq_step(r, "sizing", handing(handed), {rq_audio[r]} \cup all, all,
                    {c.optimized}, {c.extracted, c.normalized})
    /\ UNCHANGED <<dirs_made, rq_dir>>

\* lines 214-242
rq_sizing(r) ==
    /\ rq_pc[r] = "sizing"
    /\ IF rq_optimized[r] \notin disk
       THEN \* os.path.getsize raises: lines 375-377
            rq_step(r, "ended", Locals(r), {rq_optimized[r]}, {}, {}, {})
       ELSE \/ \* too large or too long: chunking is forced
               rq_step(r, "chunking", Locals(r), {rq_optimized[r]}, {}, {}, {})
            \/ \E asr \in AsrOutcomes :
                 rq_step(r, after_asr(asr, "chunking"), Locals(r),
                         {rq_optimized[r]}, {}, {}, {})
    /\ UNCHANGED <<dirs_made, rq_dir>>

\* the lists chunk_audio (src/media.py lines 539-726) may hand back for a
\* file and a chunks directory, with the files it wrote.  big: the chunk is
\* above 20 MB; the one-entry list of line 569 names a file of at most
\* max_size_mb, which is never above 20.
ChunkAudioOutcomes(input_file, dir) ==
    LET lower_file == chunk_path(dir, "lower_bitrate.mp3")
        c0 == chunk_path(dir, ChunkName(0))
        c1 == chunk_path(dir, ChunkName(1))
    IN  { [list |-> <<>>, touched |-> w, made |-> w, silent |-> FALSE] :
             w \in {{}, {lower_file, c0}} }
        \cup { [list |-> <<[path |-> input_file, big |-> FALSE]>>,
                touched |-> {}, made |-> {}, silent |-> FALSE] }
        \cup { [list |-> <<[path |-> c0, big |-> b]>>,
                touched |-> {c0, c1}, made |-> {c0}, silent |-> FALSE] :
                b \in BOOLEAN }
        \cup { [list |-> <<[path |-> c0, big |-> FALSE], [path |-> c1, big |-> FALSE]>>,
                touched |-> {lower_file, c0, c1}, made |-> {lower_file, c0, c1},
                silent |-> FALSE] }
        \cup { [list |-> <<>>, touched |-> {c0}, made |-> {}, silent |-> TRUE] }

\* lines 244-259
rq_chunking(r) ==
    /\ rq_pc[r] = "chunking"
    /\ \E o \in ChunkAudioOutcomes(rq_optimized[r], chunks_dir(rq_dir[r])) :
         rq_step(r, IF o.silent THEN on_silence(SUBPROCESS_TIMEOUT)
                    ELSE IF o.list = <<>> THEN "emergency" ELSE "loop",
                 IF o.list = <<>>
                 THEN Locals(r)
                 ELSE [Locals(r) EXCEPT !.optimized = NoPathYet, !.chunks = o.list, !.i = 1],
                 {rq_optimized[r]}, o.touched, o.made, {})
    /\ UNCHANGED <<dirs_made, rq_dir>>

\* lines 260-283
rq_emergency(r) ==
    /\ rq_pc[r] = "emergency"
    /\ LET emergency_path == in_dir(rq_dir[r], "emergency.mp3")
           bound == [Locals(r) EXCEPT !.bound = TRUE]
       IN
       \/ rq_step(r, on_silence(SUBPROCESS_TIMEOUT), bound, {rq_optimized[r]},
                  {emergency_path}, {}, {})
       \/ \* no emergency file, or one of 20 MB or more
          \E made \in SUBSET {emergency_path} :
            rq_step(r, "extreme", bound, {rq_optimized[r]}, {emergency_path}, made, {})
       \/ \E asr \in AsrOutcomes :
            rq_step(r, after_asr(asr, "extreme"), bound,
                    {rq_optimized[r], emergency_path}, {emergency_path},
                    {emergency_path}, {})
    /\ UNCHANGED <<dirs_made, rq_dir>>

\* lines 285-317
rq_extreme(r) ==
    /\ rq_pc[r] = "extreme"
    /\ LET extreme_audio == in_dir(rq_dir[r], "extreme_compressed.mp3") IN
       \/ rq_step(r, on_silence(SUBPROCESS_TIMEOUT), Locals(r), {rq_optimized[r]},
                  {extreme_audio}, {}, {})
       \/ \* os.makedirs or subprocess.run raises: line 317
          rq_step(r, "ended", Locals(r), {}, {}, {}, {})
       \/ \E o \in ChunkAudioOutcomes(extreme_audio, extreme_chunks_dir(rq_dir[r])) :
            rq_step(r, IF o.silent THEN on_silence(SUBPROCESS_TIMEOUT)
                       ELSE IF o.list = <<>> THEN "ended" ELSE "loop",
                    [Locals(r) EXCEPT !.optimized = NoPathYet, !.chunks = o.list, !.i = 1],
                    {rq_optimized[r], extreme_audio},
                    {extreme_audio} \cup o.touched, {extreme_audio} \cup o.made, {})
    /\ UNCHANGED <<dirs_made, rq_dir>>

\* lines 324-356: one chunk of the loop
rq_loop(r) ==
    /\ rq_pc[r] = "loop"
    /\ LET c == rq_chunks[r][rq_i[r]]
           small == small_chunk(c.path)
           onward == IF rq_i[r] < Len(rq_chunks[r]) THEN "loop" ELSE "combine"
           loc == [Locals(r) EXCEPT !.i = @ + 1]
       IN
       IF c.path \notin disk \/ (c.big /\ ~rq_bound[r])
       THEN \* os.path.getsize or the unbound name subprocess raises: line 356
            rq_step(r, onward, loc, {c.path}, {}, {}, {})
       ELSE IF c.big
       THEN \/ rq_step(r, on_silence(SUBPROCESS_TIMEOUT), loc, {c.path}, {small}, {}, {})
            \/ \E made \in SUBSET {small} : \E asr \in AsrOutcomes :
                 rq_step(r, IF asr = "blocked" THEN "blocked" ELSE onward, loc,
                         {c.path} \cup made, {small}, made, {})
       ELSE \E asr \in AsrOutcomes :
              rq_step(r, IF asr = "blocked" THEN "blocked" ELSE onward, loc,
                      {c.path}, {}, {}, {})
    /\ UNCHANGED <<dirs_made, rq_dir>>

\* lines 358-373
rq_combine(r) ==
    /\ rq_pc[r] = "combine"
    /\ rq_step(r, "ended", Locals(r), {}, {}, {}, {})
    /\ UNCHANGED <<dirs_made, rq_dir>>

(***************************************************************************)
(* A direct caller of merge_transcripts (src/media.py lines 728-751).  A   *)
(* text is a sequence of characters here.                                  *)
(***************************************************************************)
MaxTextLen == 2
MaxMergeChunks == 2

\* a letter, a space and a whitespace character that is not a space
MergeAlphabet == {"a", " ", "\n"}

\* the texts of at most MaxTextLen characters
MergeTexts == UNION { [1..n -> MergeAlphabet] : n \in 0..MaxTextLen }

\* the lists of at most MaxMergeChunks texts
MergeLists == UNION { [1..n -> MergeTexts] : n \in 0..MaxMergeChunks }

\* the call returns
merge_first ==
    /\ merge_pc = "called"
    /\ merged' = merge_transcripts(transcript_chunks)
    /\ merge_pc' = "returned"
    /\ UNCHANGED <<transcript_chunks, merged_again, merged_once>>

\* a second call on the same list
merge_again ==
    /\ merge_pc = "returned"
    /\ merged_again' = merge_transcripts(transcript_chunks)
    /\ merge_pc' = "again"
    /\ UNCHANGED <<transcript_chunks, merged, merged_once>>

\* a call on the list holding the merged text alone
merge_merged ==
    /\ merge_pc = "again"
    /\ merged_once' = merge_transcripts(<<merged>>)
    /\ merge_pc' = "once"
    /\ UNCHANGED <<transcript_chunks, merged, merged_again>>

vars == <<pc, max_retries, exhaust_log, tfr_vars, ca_vars, tlf_vars, pas_vars,
          cond_vars, req_vars, merge_vars>>

InitTfr ==
    /\ tfr_pc = "idle"
    /\ unit = NoFile
    /\ retries = 0
    /\ asr_calls = 0
    /\ errors = <<>>
    /\ slept = <<>>
    /\ tfr_result = NoResult
    /\ ret_line = 0
    /\ exhaust_log = {}

InitCa ==
    /\ ca_pc = "idle"
    /\ ca_args = NoArgs
    /\ ca_duration = 0
    /\ ca_target = Frac(0, 1)
    /\ ca_count = 0
    /\ ca_i = 0
    /\ chunk_list = <<>>
    /\ ca_result = <<>>
    /\ plan_count = 0
    /\ ca_encoded = FALSE
    /\ ca_last = NoLast

InitTlf ==
    /\ file_path = NoFile
    /\ audio_path = NoFile
    /\ optimized_audio = NoFile
    /\ subprocess_bound = FALSE
    /\ chunks = <<>>
    /\ loop_i = 0
    /\ transcripts = <<>>
    /\ failed_chunks = <<>>
    /\ outcomes = <<>>
    /\ tlf_result = <<>>
    /\ tlf_ret = 0
    /\ extract_failed = FALSE
    /\ duration = 0
    /\ conditioning = NoConditioning

InitPas ==
    /\ caller = "none"
    /\ stored = <<>>

InitReq ==
    /\ disk = RequestInputs
    /\ dirs_made = 0
    /\ rq_pc = [r \in Requests |-> "start"]
    /\ rq_dir = [r \in Requests |-> NoDir]
    /\ rq_input = [r \in Requests |-> NoPathYet]
    /\ rq_audio = [r \in Requests |-> NoPathYet]
    /\ rq_optimized = [r \in Requests |-> NoPathYet]
    /\ rq_chunks = [r \in Requests |-> <<>>]
    /\ rq_i = [r \in Requests |-> 0]
    /\ rq_bound = [r \in Requests |-> FALSE]
    /\ rq_read = [r \in Requests |-> {}]
    /\ rq_written = [r \in Requests |-> {}]

InitMergeIdle ==
    /\ merge_pc = "idle"
    /\ transcript_chunks = <<>>
    /\ merged = <<>>
    /\ merged_again = <<>>
    /\ merged_once = <<>>

InitCond ==
    /\ fs = [q \in CondPaths |-> -1]
    /\ opt_pc = "idle"
    /\ opt_input = NoPath
    /\ hq_audio = NoPath
    /\ normalized_audio = NoPath
    /\ final_audio = NoPath
    /\ opt_result = NoOptResult
    /\ stage = NoStage
    /\ probe = [called |-> FALSE]

\* SpecRetry: transcribe_file_with_retries called directly
InitRetry ==
    /\ pc = "direct"
    /\ max_retries \in 0..MaxRetriesBound
    /\ InitTfr
    /\ InitCa
    /\ InitTlf
    /\ InitPas
    /\ InitCond
    /\ InitReq
    /\ InitMergeIdle

NextRetry ==
    \/ direct_call
    \/ direct_return
    \/ (tfr_entry /\ UNCHANGED <<pc, max_retries, exhaust_log, ca_vars, tlf_vars, pas_vars, cond_vars, req_vars, merge_vars>>)
    \/ (tfr_loop /\ UNCHANGED <<pc, max_retries, exhaust_log, ca_vars, tlf_vars, pas_vars, cond_vars, req_vars, merge_vars>>)
    \/ (tfr_success /\ UNCHANGED <<pc, max_retries, exhaust_log, ca_vars, tlf_vars, pas_vars, cond_vars, req_vars, merge_vars>>)
    \/ (tfr_openai_error /\ UNCHANGED <<pc, max_retries, exhaust_log, ca_vars, tlf_vars, pas_vars, cond_vars, req_vars, merge_vars>>)
    \/ (tfr_exception /\ UNCHANGED <<pc, max_retries, exhaust_log, ca_vars, tlf_vars, pas_vars, cond_vars, req_vars, merge_vars>>)

SpecRetry == InitRetry /\ [][NextRetry]_vars

\* Spec: one request to transcribe_large_file; every call of
\* transcribe_file_with_retries it makes leaves max_retries at its default
Init ==
    /\ pc = "start"
    /\ max_retries = DEFAULT_MAX_RETRIES
    /\ InitTfr
    /\ InitCa
    /\ InitTlf
    /\ InitPas
    /\ InitCond
    /\ InitReq
    /\ InitMergeIdle

tlf_frame == UNCHANGED <<max_retries, exhaust_log, pas_vars, cond_vars, req_vars, merge_vars>>

tfr_frame == UNCHANGED <<pc, max_retries, exhaust_log, ca_vars, tlf_vars, pas_vars, cond_vars, req_vars, merge_vars>>

ca_frame == UNCHANGED <<pc, max_retries, exhaust_log, tfr_vars, tlf_vars, pas_vars, cond_vars, req_vars, merge_vars>>

Next ==
    \/ (tlf_start /\ tlf_frame)
    \/ (tlf_extract /\ tlf_frame)
    \/ (tlf_fast_return /\ tlf_frame)
    \/ (tlf_optimize /\ tlf_frame)
    \/ (tlf_sizing /\ tlf_frame)
    \/ (tlf_direct_return /\ tlf_frame)
    \/ (tlf_chunking /\ tlf_frame)
    \/ (tlf_chunks_back /\ tlf_frame)
    \/ (tlf_emergency /\ tlf_frame)
    \/ (tlf_emergency_return /\ tlf_frame)
    \/ (tlf_extreme /\ tlf_frame)
    \/ (tlf_extreme_back /\ tlf_frame)
    \/ (tlf_loop /\ tlf_frame)
    \/ (tlf_unit_return /\ tlf_frame)
    \/ (tlf_combine /\ tlf_frame)
    \/ (tfr_entry /\ tfr_frame)
    \/ (tfr_loop /\ tfr_frame)
    \/ (tfr_success /\ tfr_frame)
    \/ (tfr_openai_error /\ tfr_frame)
    \/ (tfr_exception /\ tfr_frame)
    \/ (ca_entry /\ ca_frame)
    \/ (ca_chunk /\ ca_frame)
    \/ (ca_finish /\ ca_frame)

Spec == Init /\ [][Next]_vars

\* SpecPlan: chunk_audio called directly
InitPlan ==
    /\ pc = "plan"
    /\ max_retries = DEFAULT_MAX_RETRIES
    /\ InitTfr
    /\ InitCa
    /\ InitTlf
    /\ InitPas
    /\ InitCond
    /\ InitReq
    /\ InitMergeIdle

NextPlan ==
    \/ plan_call
    \/ plan_return
    \/ (ca_entry /\ ca_frame)
    \/ (ca_chunk /\ ca_frame)
    \/ (ca_finish /\ ca_frame)

SpecPlan == InitPlan /\ [][NextPlan]_vars

\* SpecStore: one request to process_and_store
InitStore ==
    /\ pc = "pas_start"
    /\ max_retries = DEFAULT_MAX_RETRIES
    /\ InitTfr
    /\ InitCa
    /\ InitTlf
    /\ InitPas
    /\ InitCond
    /\ InitReq
    /\ InitMergeIdle

NextStore ==
    \/ pas_start
    \/ pas_large_return
    \/ pas_std_return
    \/ (tlf_start /\ tlf_frame)
    \/ (tlf_extract /\ tlf_frame)
    \/ (tlf_fast_return /\ tlf_frame)
    \/ (tlf_optimize /\ tlf_frame)
    \/ (tlf_sizing /\ tlf_frame)
    \/ (tlf_direct_return /\ tlf_frame)
    \/ (tlf_chunking /\ tlf_frame)
    \/ (tlf_chunks_back /\ tlf_frame)
    \/ (tlf_emergency /\ tlf_frame)
    \/ (tlf_emergency_return /\ tlf_frame)
    \/ (tlf_extreme /\ tlf_frame)
    \/ (tlf_extreme_back /\ tlf_frame)
    \/ (tlf_loop /\ tlf_frame)
    \/ (tlf_unit_return /\ tlf_frame)
    \/ (tlf_combine /\ tlf_frame)
    \/ (tfr_entry /\ tfr_frame)
    \/ (tfr_loop /\ tfr_frame)
    \/ (tfr_success /\ tfr_frame)
    \/ (tfr_openai_error /\ tfr_frame)
    \/ (tfr_exception /\ tfr_frame)
    \/ (ca_entry /\ ca_frame)
    \/ (ca_chunk /\ ca_frame)
    \/ (ca_finish /\ ca_frame)

SpecStore == InitStore /\ [][NextStore]_vars

\* SpecCond: optimize_audio_for_transcription and get_media_duration called
\* directly
InitConditioning ==
    /\ pc = "cond"
    /\ max_retries = DEFAULT_MAX_RETRIES
    /\ InitTfr
    /\ InitCa
    /\ InitTlf
    /\ InitPas
    /\ InitCond
    /\ InitReq
    /\ InitMergeIdle

cond_frame ==
    UNCHANGED <<pc, max_retries, exhaust_log, tfr_vars, ca_vars, tlf_vars, pas_vars,
                req_vars, merge_vars>>

NextCond ==
    \/ (cond_call /\ cond_frame)
    \/ (cond_extract /\ cond_frame)
    \/ (cond_normalize /\ cond_frame)
    \/ (cond_denoise /\ cond_frame)
    \/ (cond_cleanup /\ cond_frame)
    \/ (cond_probe /\ cond_frame)

SpecCond == InitConditioning /\ [][NextCond]_vars

\* SpecFiles: two concurrent requests to transcribe_large_file
InitFiles ==
    /\ pc = "requests"
    /\ max_retries = DEFAULT_MAX_RETRIES
    /\ InitTfr
    /\ InitCa
    /\ InitTlf
    /\ InitPas
    /\ InitCond
    /\ InitReq
    /\ InitMergeIdle

req_frame ==
    UNCHANGED <<pc, max_retries, exhaust_log, tfr_vars, ca_vars, tlf_vars, pas_vars,
                cond_vars, merge_vars>>

NextFiles ==
    \/ \E r \in Requests : (rq_start(r) /\ req_frame)
    \/ \E r \in Requests : (rq_extract(r) /\ req_frame)
    \/ \E r \in Requests : (rq_optimize(r) /\ req_frame)
    \/ \E r \in Requests : (rq_sizing(r) /\ req_frame)
    \/ \E r \in Requests : (rq_chunking(r) /\ req_frame)
    \/ \E r \in Requests : (rq_emergency(r) /\ req_frame)
    \/ \E r \in Requests : (rq_extreme(r) /\ req_frame)
    \/ \E r \in Requests : (rq_loop(r) /\ req_frame)
    \/ \E r \in Requests : (rq_combine(r) /\ req_frame)

SpecFiles == InitFiles /\ [][NextFiles]_vars

\* SpecFilesFair: the same, every request taking its next step as long as
\* it has one
rq_next(r) ==
    /\ req_frame
    /\ \/ rq_start(r) \/ rq_extract(r) \/ rq_optimize(r) \/ rq_sizing(r)
       \/ rq_chunking(r) \/ rq_emergency(r) \/ rq_extreme(r) \/ rq_loop(r)
       \/ rq_combine(r)

SpecFilesFair == SpecFiles /\ \A r \in Requests : WF_vars(rq_next(r))

\* SpecMerge: merge_transcripts called directly, on every list of MergeLists
InitMerge ==
    /\ pc = "merge"
    /\ max_retries = DEFAULT_MAX_RETRIES
    /\ InitTfr
    /\ InitCa
    /\ InitTlf
    /\ InitPas
    /\ InitCond
    /\ InitReq
    /\ merge_pc = "called"
    /\ transcript_chunks \in MergeLists
    /\ merged = <<>>
    /\ merged_again = <<>>
    /\ merged_once = <<>>

merge_frame ==
    UNCHANGED <<pc, max_retries, exhaust_log, tfr_vars, ca_vars, tlf_vars, pas_vars,
                cond_vars, req_vars>>

NextMerge ==
    \/ (merge_first /\ merge_frame)
    \/ (merge_again /\ merge_frame)
    \/ (merge_merged /\ merge_frame)

SpecMerge == InitMerge /\ [][NextMerge]_vars

\* SpecRetryFair: SpecRetry, a call that has a next step taking it (the
\* function is sequential code; every ASR call is taken to answer)
tfr_next ==
    /\ tfr_frame
    /\ (tfr_entry \/ tfr_loop \/ tfr_success \/ tfr_openai_error \/ tfr_exception)

SpecRetryFair == SpecRetry /\ WF_vars(tfr_next)

(***************************************************************************)
(* Claims about transcribe_file_with_retries, checked under SpecRetry      *)
(***************************************************************************)
\* the function has returned and the caller has not yet taken the result
TfrReturned == tfr_pc = "done"

RateLimitSignal(error_message) ==
    IsRateLimit(error_message) /\ ~IsTooLarge(error_message)

\* C2: a unit whose every ASR attempt fails with a transient error that is
\* neither a rate-limit nor a payload-too-large signal has been attempted
\* 1 + max_retries times when it is reported as failed.
C2_TransientAttempts ==
    ( /\ TfrReturned
      /\ ~tfr_result.success
      /\ asr_calls > 0
      /\ asr_calls = Len(errors)
      /\ \A k \in 1..Len(errors) : IsTransient(errors[k]) )
    => asr_calls = 1 + max_retries

\* C3: for one max_retries, a run exhausted by rate-limit signals only and a
\* run exhausted by other transient errors only made the same number of ASR
\* calls.
C3_SameBudget ==
    \A a \in exhaust_log : \A b \in exhaust_log : a.calls = b.calls

\* C4: when the k-th failed attempt of a unit is a rate-limit signal the wait
\* after it is min(5*k, 30) seconds; rate-limit, rate-limit, success gives
\* waits of 5 s and 10 s and a successful outcome carrying the transcript.
C4_RateLimitBackoff ==
    /\ \A k \in 1..Len(errors) :
          RateLimitSignal(errors[k]) => slept[k] = Min(5 * k, 30)
    /\ ( /\ TfrReturned
         /\ Len(errors) = 2
         /\ RateLimitSignal(errors[1])
         /\ RateLimitSignal(errors[2])
         /\ asr_calls = 3
         /\ ret_line = 116 )
       => /\ slept = <<5, 10>>
          /\ tfr_result.success
          /\ tfr_result.text \in AsrTexts(unit)

\* rate-limit, rate-limit, success with a non-empty transcript
C4_Witness ==
    /\ tfr_pc = "done"
    /\ Len(errors) = 2
    /\ RateLimitSignal(errors[1])
    /\ RateLimitSignal(errors[2])
    /\ tfr_result.success
    /\ tfr_result.text # <<>>

\* C5: every backoff wait is followed by a further ASR attempt on the unit.
C5_WaitThenAttempt ==
    TfrReturned => \A k \in 1..Len(slept) : slept[k] > 0 => asr_calls > k

\* C6: a payload-too-large signal ends the unit at once as failed, with no
\* wait and no further ASR call; a file above 25 MB is reported failed
\* without any ASR call.
C6_TooLargeFailsAtOnce ==
    /\ \A k \in 1..Len(errors) :
          IsTooLarge(errors[k]) =>
             /\ k = Len(errors)
             /\ slept[k] = 0
             /\ asr_calls = k
             /\ TfrReturned
             /\ ~tfr_result.success
    /\ (unit.exists /\ unit.size > 25 /\ tfr_pc # "entry") =>
          /\ asr_calls = 0
          /\ TfrReturned
          /\ ~tfr_result.success

\* a payload-too-large signal on the second attempt, retries still available
C6_Witness ==
    /\ tfr_pc = "done"
    /\ Len(errors) = 2
    /\ IsTooLarge(errors[2])
    /\ IsRateLimit(errors[2])
    /\ retries < max_retries

\* C7: when the unit is reported failed because its retries are exhausted,
\* the returned text carries the error detail of the last failed attempt.
C7_ExhaustionKeepsDetail ==
    (TfrReturned /\ ret_line \in {133, 144}) =>
       Contains(errors[Len(errors)], tfr_result.text)

(***************************************************************************)
(* Claims about transcribe_large_file, checked under Spec                  *)
(***************************************************************************)
\* the string returned is read back: the note, the indices it lists, the
\* transcript before it
HasNote(text) == \E k \in 1..Len(text) : text[k] = NoteOpen

NoteIndices(text) ==
    IF HasNote(text)
    THEN LET k == CHOOSE k \in 1..Len(text) : text[k] = NoteOpen IN
         { n \in 1..9 : \E j \in (k + 1)..Len(text) : text[j] = ToString(n) }
    ELSE {}

TranscriptPart(text) ==
    IF HasNote(text)
    THEN LET k == CHOOSE k \in 1..Len(text) : text[k] = NoteOpen IN
         SubSeq(text, 1, k - 3)
    ELSE text

Words(text) == SelectSeq(text, LAMBDA t : t \notin Whitespace)

RECURSIVE ObtainedWords(_)
\* the words of the texts obtained for the chunks, in chunk order
ObtainedWords(os) ==
    IF os = <<>> THEN <<>>
    ELSE (IF os[1].ok THEN Words(os[1].text) ELSE <<>>) \o ObtainedWords(Tail(os))

\* the request went through the chunk loop and returned
LoopReturned == pc = "done" /\ tlf_ret \in {360, 373}

\* the p-th time range of the plan (p from 0) has a text in the result
Contributes(p) ==
    \E k \in 1..Len(chunks) : chunks[k].idx = p /\ outcomes[k].ok

\* C1: a transcript assembled from chunks that lacks the text of a planned
\* chunk (not materialized, or not transcribed) carries the failure note.
C1_NoSilentTruncation ==
    (pc = "done" /\ tlf_ret = 373) =>
       ((\E p \in 0..(plan_count - 1) : ~Contributes(p)) => HasNote(tlf_result))

C9_NoteNamesPlanIndices ==
    LoopReturned =>
       NoteIndices(tlf_result) = { p + 1 : p \in { q \in 0..(plan_count - 1) : ~Contributes(q) } }

Unrecoverable == tlf_ret \in {314, 317}

\* C11 (checked under SpecStore): when normal chunking yields no chunk and
\* the emergency attempt and the extreme chunking round fail, no text is
\* returned as the transcript and nothing is handed to store_transcript.
C11_UnrecoverableIsNotATranscript ==
    (caller = "process_and_store" /\ Unrecoverable) =>
       (pc # "pas_done" /\ stored = <<>>)

\* an ASR call is made in this step
AsrCall == asr_calls' = asr_calls + 1

\* chunk_audio is called in this step
ChunkAudioCall == ca_pc = "idle" /\ ca_pc' = "entry"

Planned == ca_pc \in {"chunk", "finish"}

PlanStart(i) == start_time(i, ca_target)
PlanEnd(i) == end_time(i, ca_count, ca_target, ca_duration)

\* C13: called on an existing file of at most max_size_mb whose duration is
\* at most max_chunk_duration, chunk_audio returns one entry, the input file
\* itself with start time 0, and has run no encode.
C13_SmallFileReturnedWhole ==
    [][ ( /\ ca_pc = "entry"
          /\ ca_args.input_file.exists
          /\ ca_args.input_file.size <= ca_args.max_size_mb
          /\ \A d \in get_media_duration(ca_args.input_file) :
                d <= ca_args.max_chunk_duration )
        => /\ ca_pc' = "done"
           /\ ca_result' = <<[file |-> ca_args.input_file, start |-> Frac(0, 1),
                              idx |-> 0]>>
           /\ plan_count' = 1
           /\ ~ca_encoded' ]_vars

\* the input file has come back as the only entry and nothing was encoded
C13_Witness ==
    /\ pc = "plan"
    /\ ca_pc = "done"
    /\ Len(ca_result) = 1
    /\ ca_result[1].file.name = "a.mp3"
    /\ ca_result[1].file.size = 10
    /\ ca_result[1].start = Frac(0, 1)
    /\ ~ca_encoded

\* the part of C14 that does not depend on the length of the overlap: the
\* first chunk starts at 0, the last ends at duration, there is no gap, and
\* starts and ends are non-negative and non-decreasing
PlanCovers ==
    /\ PlanStart(0).n = 0
    /\ PlanEnd(ca_count - 1).n = ca_duration * ca_target.d
    /\ \A i \in 0..(ca_count - 1) :
          /\ PlanStart(i).n >= 0
          /\ PlanEnd(i).n >= PlanStart(i).n
    /\ \A i \in 0..(ca_count - 2) :
          /\ PlanStart(i).n <= PlanStart(i + 1).n
          /\ PlanEnd(i).n <= PlanEnd(i + 1).n
          /\ PlanStart(i + 1).n <= PlanEnd(i).n

\* end_i - start_{i+1} >= seconds for every pair of adjacent chunks
PlanOverlaps(seconds) ==
    \A i \in 0..(ca_count - 2) :
       PlanEnd(i).n - PlanStart(i + 1).n >= seconds * ca_target.d

\* C14 as claimed: every plan of more than one chunk covers [0, duration]
\* without a gap, in order, and adjacent chunks overlap by at least 2 s.
C14_Original ==
    (Planned /\ ca_count > 1) => (PlanCovers /\ PlanOverlaps(OVERLAP_SECONDS))

\* C14 as amended: the same, the overlap of adjacent chunks being at least
\* 2 s when the duration is at least 2 s, and the whole duration otherwise.
C14_PlanCoversWithOverlap ==
    (Planned /\ ca_count > 1) =>
       /\ PlanCovers
       /\ PlanOverlaps(Min(OVERLAP_SECONDS, ca_duration))

\* a plan of three chunks or more over a file longer than the overlap
C14_Witness ==
    /\ pc = "plan"
    /\ Planned
    /\ ca_count >= 3
    /\ ca_duration = 1200
    /\ ca_i = ca_count

\* C15: in every plan each chunk spans at most max_chunk_duration, the
\* overlap included.
C15_SpanWithinMaxChunkDuration ==
    Planned =>
       \A i \in 0..(ca_count - 1) :
          PlanEnd(i).n - PlanStart(i).n <= ca_args.max_chunk_duration * ca_target.d

\* C16: when a materialized chunk exceeds max_size_mb, every encode of that
\* chunk uses a bitrate strictly lower than the one before it, the first
\* encode included, and the ladder is tried at most 3 times.
C16_BitratesStrictlyDecrease ==
    (Planned /\ ca_last.made > ca_args.max_size_mb) =>
       /\ Len(ca_last.bitrates) <= 1 + Len(LADDER)
       /\ \A j \in 1..(Len(ca_last.bitrates) - 1) :
             ca_last.bitrates[j + 1] < ca_last.bitrates[j]

SizingStep == pc = "sizing" /\ pc' \in {"direct_wait", "chunking"}

\* C18 (checked under Spec): when the conditioned file is above 20 MB or its
\* probed duration above 600 s the sizing decision makes no direct call and
\* goes to chunking; it makes the direct call exactly when size <= 20 MB and
\* duration <= 600 s.
C18_SizingDecision ==
    [][SizingStep =>
         /\ (optimized_audio.size > 20 \/ duration' > 600) =>
               (pc' = "chunking" /\ tfr_pc' = "idle")
         /\ (pc' = "direct_wait") <=>
               (optimized_audio.size <= 20 /\ duration' <= 600)
         /\ (pc' = "direct_wait") => (tfr_pc' = "entry" /\ unit' = optimized_audio)
      ]_vars

\* a conditioned file of 1 MB and 900 s has gone to chunking
C18_Witness ==
    /\ pc = "chunking"
    /\ optimized_audio.size <= 20
    /\ duration > 600
    /\ tfr_pc = "idle"

C20_FailedDirectFallsToChunking ==
    [][ ( /\ pc \in {"direct_wait", "pas_std_wait"}
          /\ tfr_pc = "done"
          /\ ~tfr_result.success
          /\ pc' # pc )
        => pc' = "chunking" ]_vars

(***************************************************************************)
(* Claims about the chunk loop and the fallback tiers, checked under Spec  *)
(***************************************************************************)
\* the p-th unit of the plan (p from 0) went through the chunk loop and an
\* ASR call was made for it
Attempted(p) ==
    \E k \in 1..Len(outcomes) : chunks[k].idx = p /\ outcomes[k].asr

\* C21: once chunk_audio has computed a plan, every unit of the plan gets an
\* attempt of transcription, in increasing chunk index and one at a time,
\* whatever happened to the units before it.
C21_EveryPlannedUnitAttempted ==
    LoopReturned =>
       /\ Len(outcomes) = Len(chunks)
       /\ \A k \in 1..(Len(chunks) - 1) : chunks[k].idx < chunks[k + 1].idx
       /\ \A p \in 0..(plan_count - 1) : Attempted(p)

\* the chunk loop is at a chunk file that exists and is above 20 MB
OversizedUnit ==
    /\ pc = "loop"
    /\ chunks[loop_i].file.exists
    /\ chunks[loop_i].file.size > 20

\* C22: in the chunk loop, after normal chunking as after extreme chunking,
\* a chunk above 20 MB is re-encoded and a transcription of that chunk is
\* then attempted; a chunk of at most 20 MB is sent as it is.
C22_OversizedUnitReencodedAndSent ==
    [][ /\ OversizedUnit =>
             /\ pc' = "unit_wait"
             /\ tfr_pc' = "entry"
             /\ unit'.word = chunks[loop_i].file.word
        /\ (pc = "loop" /\ chunks[loop_i].file.exists
                        /\ chunks[loop_i].file.size <= 20) =>
             (pc' = "unit_wait" /\ unit' = chunks[loop_i].file)
      ]_vars

\* a step of transcribe_large_file from one position to another
Moves(from, to) == pc = from /\ pc' = to

\* the emergency transcription has handed back a transcript
EmergencyTranscribed ==
    pc = "emergency_wait" /\ tfr_pc = "done" /\ tfr_result.success

\* the parts of C23 about the order of the tiers: the emergency tier is
\* entered exactly when chunk_audio handed back no chunk; its ASR call is on
\* the emergency file and only if that file is under 20 MB; the extreme
\* round comes only after the emergency tier gave no transcript, is a call
\* of chunk_audio on the extremely compressed file with 10 MB / 300 s, is
\* not repeated, and its chunks go to the chunk loop.
EmergencyOrdering ==
    /\ (pc' = "emergency" /\ pc # "emergency") <=>
          (pc = "chunk_wait" /\ pc' # pc /\ ca_pc = "done" /\ ca_result = <<>>)
    /\ (pc = "emergency" /\ pc' # pc) =>
          /\ pc' \in {"emergency_wait", "extreme"}
          /\ pc' = "emergency_wait" =>
                /\ tfr_pc' = "entry"
                /\ unit'.name = "emergency.mp3"
                /\ unit'.size < 20
    /\ (EmergencyTranscribed /\ pc' # pc) =>
          (pc' = "done" /\ tlf_result' = tfr_result.text)
    /\ (pc' = "extreme" /\ pc # "extreme") =>
          (pc = "emergency" \/ (pc = "emergency_wait" /\ ~EmergencyTranscribed))
    /\ ChunkAudioCall =>
          \/ Moves("chunking", "chunk_wait")
          \/ /\ Moves("extreme", "extreme_wait")
             /\ ca_args'.input_file.name = "extreme_compressed.mp3"
             /\ ca_args'.max_size_mb = 10
             /\ ca_args'.max_chunk_duration = 300
    /\ (pc' = "chunking" /\ pc # "chunking") => pc \in {"sizing", "direct_wait"}
    /\ (pc = "extreme_wait" /\ pc' # pc) =>
          IF ca_result # <<>>
          THEN pc' = "loop" /\ chunks' = ca_result /\ loop_i' = 1
          ELSE pc' = "done" /\ tlf_ret' = 314

\* C23 as claimed: the ordering above, and the extreme tier always runs its
\* round of chunk_audio.
C23_Original ==
    [][ /\ EmergencyOrdering
        /\ (pc = "extreme" /\ pc' # pc) => ChunkAudioCall ]_vars

\* C23 as amended: the ordering above, with at most one round of
\* chunk_audio in the extreme tier: when making the directory or running
\* the compression raises, there is none and the request returns at line 317.
C23_EmergencyOrdering ==
    [][ /\ EmergencyOrdering
        /\ (pc = "extreme" /\ pc' # pc) =>
              (ChunkAudioCall \/ (pc' = "done" /\ tlf_ret' = 317)) ]_vars

\* a chunk of the extreme round is being transcribed by the chunk loop
C23_Witness ==
    /\ pc = "unit_wait"
    /\ subprocess_bound
    /\ asr_calls > 0
    /\ Len(chunks) >= 2
    /\ loop_i = 2

(***************************************************************************)
(* Claims about the conditioning stages, checked under SpecCond            *)
(***************************************************************************)
\* the stage handed back either its input path or an output file that
\* exists and is not empty
StageHandsBackUsableFile(input_path, output_path) ==
    /\ ~stage.raised
    /\ stage.ret \in {input_path, output_path}
    /\ stage.ret = output_path => path_has_data(stage.fs, output_path)

\* C24: normalize_audio raises nothing, runs the plain copy when the
\* analysis or the normalization pass fails, and hands back its output path
\* only if that file exists and is not empty, its input path otherwise.
C24_NormalizeVerifiesOutput ==
    stage.name = "normalize" =>
       /\ StageHandsBackUsableFile(hq_audio, NormalizedPath)

\* C25: apply_noise_reduction runs no denoise filter when the mean volume
\* is not above -25 dB or was not measured, and hands back its output path
\* only if that file exists and is not empty, its input path otherwise.
C25_DenoiseVerifiesOutput ==
    stage.name = "denoise" =>
       /\ ~has_noise(stage.measure) =>
             \A k \in 1..Len(stage.runs) : stage.runs[k] # "denoise"
       /\ StageHandsBackUsableFile(normalized_audio, FinalOutput)

\* C26: optimize_audio_for_transcription raises nothing and, given an input
\* file with data, hands back the path of a file with data: the output of
\* the last stage that worked, or the input itself.
C26_OptimizeHandsBackAFile ==
    opt_pc = "done" =>
       /\ ~opt_result.raised
       /\ opt_result.path \in CondPaths
       /\ path_has_data(fs, opt_input) => path_has_data(fs, opt_result.path)

FilesOf(r) == { q \in disk : q.top = rq_dir[r] }

\* request r is inside its call of transcribe_large_file
Running(r) == rq_pc[r] \notin {"start", "ended"}

\* C28: every temporary file a request creates lies inside the temporary
\* directory of that request, and once the call has ended, by whatever exit
\* (return of a transcript, return from a fallback tier, failure message,
\* exception), none of them exists: the files that exist are the callers'
\* inputs and the files below the directory of a request still running.
C28_TemporaryFilesConfined ==
    /\ \A r \in Requests : rq_written[r] \subseteq {rq_dir[r]}
    /\ \A r \in Requests : rq_pc[r] = "ended" => FilesOf(r) = {}
    /\ \A q \in disk :
         \/ q \in RequestInputs
         \/ \E r \in Requests : Running(r) /\ q.top = rq_dir[r]

\* a request has ended after the extreme round and its loop, which wrote
\* below its directory, while the other is in its loop with files on disk
C28_Witness ==
    /\ rq_pc[1] = "ended"
    /\ rq_dir[1] \in rq_written[1]
    /\ FilesOf(1) = {}
    /\ rq_pc[2] = "loop"
    /\ rq_bound[2]
    /\ \E q \in FilesOf(2) : q.name = "extreme_compressed.mp3"

\* C29: under every interleaving of two requests, no directory in which one
\* request writes, overwrites or removes a path is one in which the other
\* reads, writes or removes a path (so no such path is shared), the two
\* temporary directories differ, and the chunk list of a request names no
\* path below a directory the other writes to.
C29_RequestsShareNoMutableState ==
    \A r \in Requests : \A o \in Requests \ {r} :
        /\ rq_written[r] \cap (rq_written[o] \cup rq_read[o]) = {}
        /\ (Running(r) /\ Running(o)) => rq_dir[r] # rq_dir[o]
        /\ \A k \in 1..Len(rq_chunks[r]) :
             rq_chunks[r][k].path.top \notin rq_written[o]

\* both requests are in their loops, each with its own chunk_000.mp3, and
\* both have read below the uploads directory
C29_Witness ==
    /\ rq_pc[1] = "loop"
    /\ rq_pc[2] = "loop"
    /\ UploadsDir \in rq_read[1] \cap rq_read[2]
    /\ \E q \in FilesOf(1) : q.name = ChunkName(0) /\ q.sub = "chunks"
    /\ \E q \in FilesOf(2) : q.name = ChunkName(0) /\ q.sub = "chunks"
    /\ Len(rq_chunks[1]) = 2
    /\ Len(rq_chunks[2]) = 2

\* C30: every call of an external tool and every ASR call is bounded by a
\* timeout, so each request ends even when the tool or the ASR service
\* never answers.
C30_EveryRequestEnds == \A r \in Requests : <>(rq_pc[r] = "ended")

(***************************************************************************)
(* Claims about the direct path and the merge                              *)
(***************************************************************************)
\* the input is under the ceilings of a direct call: 25 MB and 600 s
UnderCeilings(f) == f.exists /\ f.size <= MAX_WHISPER_FILE_SIZE_MB /\ f.dur <= 600

\* the first ASR attempt of the current unit has succeeded
FirstAttemptSucceeded == tfr_pc = "done" /\ tfr_result.success /\ errors = <<>>

\* C31 (checked under SpecStore): a request for an input under all ceilings
\* goes to one direct transcription of the input itself and never to
\* transcribe_large_file or chunk_audio; when the first ASR attempt succeeds
\* exactly one ASR call was made and the ASR text, without failure note, is
\* what is stored and returned.
C31_SmallInputOneDirectCall ==
    [][ /\ (pc = "pas_start" /\ pc' = "start") => ~UnderCeilings(file_path')
        /\ (pc = "pas_start" /\ pc' = "pas_std_wait" /\ UnderCeilings(file_path'))
              => (unit' = file_path' /\ tfr_pc' = "entry" /\ asr_calls' = 0)
        /\ (pc = "pas_std_wait" /\ UnderCeilings(file_path))
              => /\ ~ChunkAudioCall
                 /\ ca_pc = "idle"
                 /\ pc' \in {"pas_std_wait", "pas_done", "pas_raised"}
        /\ (pc = "pas_std_wait" /\ UnderCeilings(file_path)
              /\ FirstAttemptSucceeded /\ pc' = "pas_done")
              => /\ asr_calls = 1
                 /\ tfr_result.text \in AsrTexts(file_path)
                 /\ ~HasNote(tfr_result.text)
                 /\ stored' = <<tfr_result.text>>
      ]_vars

\* the direct call for a 1 MB, 5 s input has returned after one ASR call
C31_Witness ==
    /\ pc = "pas_std_wait"
    /\ UnderCeilings(file_path)
    /\ file_path.size = 1
    /\ file_path.dur = 5
    /\ FirstAttemptSucceeded
    /\ asr_calls = 1

RECURSIVE SplitWords(_, _)
\* str.split() of a text of characters: its words, cur being the word read
\* so far
SplitWords(text, cur) ==
    IF text = <<>>
    THEN IF cur = <<>> THEN <<>> ELSE <<cur>>
    ELSE IF text[1] \in Whitespace
    THEN (IF cur = <<>> THEN <<>> ELSE <<cur>>) \o SplitWords(Tail(text), <<>>)
    ELSE SplitWords(Tail(text), Append(cur, text[1]))

RECURSIVE WordsOfAll(_)
\* the words of the texts of a list, text after text
WordsOfAll(texts) ==
    IF texts = <<>> THEN <<>>
    ELSE SplitWords(texts[1], <<>>) \o WordsOfAll(Tail(texts))

\* C32 (checked under SpecMerge): the text merge_transcripts returns is the
\* concatenation of the given texts in list order with one space between
\* consecutive texts, whitespace runs collapsed to one space and the ends
\* stripped: its words are the words of the given texts, text after text,
\* none dropped, duplicated or joined to a neighbour, with exactly one space
\* between two words and nothing before the first or after the last.
C32_MergeKeepsWordsInOrder ==
    merge_pc # "called" =>
       /\ merged = Strip(CollapseWhitespace(Join(transcript_chunks, <<" ">>)))
       /\ SplitWords(merged, <<>>) = WordsOfAll(transcript_chunks)
       /\ merged = Join(SplitWords(merged, <<>>), <<" ">>)

\* two texts with whitespace at their ends and a newline were merged
C32_Witness ==
    /\ merge_pc = "returned"
    /\ transcript_chunks = << <<"a", " ">>, <<"\n", "a">> >>
    /\ merged = <<"a", " ", "a">>

\* C33 (checked under SpecMerge): a second call of merge_transcripts on the
\* same list returns the same text, and the merge of the one-element list
\* holding a merged text is that text.
C33_MergeIdempotent ==
    /\ merge_pc \in {"again", "once"} => merged_again = merged
    /\ merge_pc = "once" => merged_once = merged

\* the merged text of two texts with words and whitespace was merged again
C33_Witness ==
    /\ merge_pc = "once"
    /\ transcript_chunks = << <<"a", "a">>, <<" ", "a">> >>
    /\ merged = <<"a", "a", " ", "a">>
    /\ merged_once = merged

(***************************************************************************)
(* Claims about the conditioning clean-up, the size check and the retry    *)
(* loop                                                                    *)
(***************************************************************************)
\* C34 (checked under SpecCond): the clean-up of the intermediate files at
\* the end of optimize_audio_for_transcription never removes the file whose
\* path is returned: a file that final_audio names before the clean-up is
\* still there when the function returns that path.
C34_CleanupKeepsReturnedFile ==
    [][ (opt_pc = "cleanup" /\ opt_pc' = "done")
           => /\ opt_result'.path = final_audio
              /\ path_exists(fs, final_audio) => path_exists(fs', final_audio)
      ]_vars

\* C35 (checked under SpecStore): every call of the ASR client carries a
\* file of at most 25 MB, on the direct path, the video fast path, for a
\* chunk, a re-encoded chunk and the emergency file; a call of
\* transcribe_file_with_retries on a larger file returns the size message
\* as a failure without any call of the client.
C35_NoOversizedAsrRequest ==
    [][ /\ AsrCall => (tfr_pc = "call" /\ unit.exists
                        /\ unit.size <= MAX_WHISPER_FILE_SIZE_MB)
        /\ (tfr_pc = "entry" /\ unit.exists /\ unit.size > MAX_WHISPER_FILE_SIZE_MB)
              => /\ tfr_pc' = "done"
                 /\ ~tfr_result'.success
                 /\ tfr_result'.text = TooLargeText(unit.size)
                 /\ asr_calls' = 0
      ]_vars

\* a chunk of more than 25 MB of the extreme round was refused
C35_Witness ==
    /\ caller = "process_and_store"
    /\ pc = "unit_wait"
    /\ tfr_pc = "done"
    /\ unit.size > MAX_WHISPER_FILE_SIZE_MB
    /\ ~tfr_result.success
    /\ asr_calls = 0

\* a call of transcribe_file_with_retries has ended
TfrEnded == tfr_pc \in {"done", "raised"}

\* what holds of every call whatever the ASR outcomes: it ends, it makes at
\* most max_retries + 1 calls of the client, and when it returns it returns
\* a pair of a text and a flag
RetryLoopBounded ==
    /\ [](asr_calls <= max_retries + 1)
    /\ [](tfr_pc = "done" => /\ tfr_result.success \in BOOLEAN
                             /\ tfr_result.text \in Seq(STRING)
                             /\ ret_line \in {98, 116, 125, 133, 141, 144})
    /\ (tfr_pc = "entry") ~> TfrEnded

\* C36 as claimed (checked under SpecRetryFair): the function ends after at
\* most max_retries + 1 ASR calls whatever the outcomes, and never raises.
C36_Original == RetryLoopBounded /\ [](tfr_pc # "raised")

\* C36 (checked under SpecRetryFair): every call ends after at most
\* max_retries + 1 ASR calls whatever the mix of outcomes; it raises only
\* for a file that does not exist, before any ASR call, and otherwise
\* returns a (text, success) pair.
C36_RetryLoopTerminates ==
    /\ RetryLoopBounded
    /\ [](tfr_pc = "raised" => (~unit.exists /\ asr_calls = 0 /\ ret_line = 92))

\* a call ended with max_retries + 1 ASR calls after a transient failure
\* and a rate limit
C36_Witness ==
    /\ tfr_pc = "done"
    /\ max_retries = 2
    /\ asr_calls = max_retries + 1
    /\ Len(errors) = 2
    /\ IsTransient(errors[1])
    /\ IsRateLimit(errors[2])

\* an ASR attempt ends in this step with neither a text nor an OpenAIError
OtherExceptionRaised ==
    /\ tfr_pc = "call"
    /\ AsrCall
    /\ errors' = errors
    /\ ~(tfr_pc' = "done" /\ tfr_result'.success)

\* C37 (checked under SpecRetry): an ASR attempt that raises an exception
\* that is not an OpenAIError ends the unit at once as failed, with the
\* text of the exception: nothing is slept and the loop is not entered
\* again, whatever retries remain.
C37_OtherExceptionEndsUnit ==
    [][ OtherExceptionRaised
           => /\ tfr_pc' = "done"
              /\ ~tfr_result'.success
              /\ \E e \in OtherExceptions : tfr_result'.text = UnexpectedText(e)
              /\ slept' = slept
              /\ retries' = retries
      ]_vars

\* the second attempt of a unit raised; two retries were left
C37_Witness ==
    /\ tfr_pc = "done"
    /\ ret_line = 141
    /\ max_retries = 3
    /\ retries = 1
    /\ asr_calls = 2
    /\ Len(slept) = 1
    /\ ~tfr_result.success

\* C38 (checked under SpecPlan): chunk_audio returns an empty list only when
\* no chunk of the plan was materialized: whenever the loop has appended at
\* least one chunk file, the list returned holds every one of them, whatever
\* happens to the chunks after them.
C38_MaterializedChunksReturned ==
    [][ (ca_pc \in {"chunk", "finish"} /\ ca_pc' = "done" /\ chunk_list # <<>>)
           => /\ ca_result' # <<>>
              /\ Len(ca_result') >= Len(chunk_list)
              /\ SubSeq(ca_result', 1, Len(chunk_list)) = chunk_list
      ]_vars

\* the transcription step of process_and_store has returned to it
TranscriptionReturned ==
    \/ pc = "done" /\ caller = "process_and_store"
    \/ pc = "pas_std_wait" /\ tfr_pc = "done"

\* the text that step returned
ReturnedTranscript ==
    IF pc = "pas_std_wait" THEN tfr_result.text ELSE tlf_result

\* C39 (checked under SpecStore): a call of process_and_store that does not
\* raise hands exactly one text to the persistence collaborator, after the
\* transcription step has returned, and that text is whatever the step
\* returned, the success flag of the direct transcription being ignored; a
\* call that raises has stored nothing, and nothing is stored at any other
\* step.
C39_StoresReturnedTextOnce ==
    [][ /\ (pc # "pas_done" /\ pc' = "pas_done")
             => /\ TranscriptionReturned
                /\ stored' = Append(stored, ReturnedTranscript)
        /\ (stored' # stored) => (pc # "pas_done" /\ pc' = "pas_done")
        /\ (pc' = "pas_raised") => (stored' = <<>>)
        /\ (pc = "pas_done") => (Len(stored) = 1)
      ]_vars

\* a direct transcription that failed on its first attempt with an
\* unexpected exception: its message is the stored transcript
C39_Witness ==
    /\ pc = "pas_done"
    /\ Len(stored) = 1
    /\ \E e \in OtherExceptions : stored[1] = UnexpectedText(e)

====
